---- MODULE Spec2Model ----
(***************************************************************************)
(* A model of the safety-gated mediation gateway of agent-safety-mcp:      *)
(* the sliding-window rate limiter, the query sanitizer, the .env          *)
(* redaction, the file disclosure service and the tool dispatch paths.     *)
(* Strings the code inspects character by character are sequences of       *)
(* one-character strings; instants are milliseconds.                       *)
(***************************************************************************)
EXTENDS Integers, Sequences, FiniteSets, TLC

(***************************************************************************)
(* Program constants (src/src/config/constants.ts).                        *)
(***************************************************************************)
DEFAULT_MAX_REQUESTS == 10
DEFAULT_WINDOW_MS == 60000
SERPAPI_MAX_REQUESTS == 5
SERPAPI_WINDOW_MS == 60000
MAX_QUERY_LENGTH == 200
\* The longest value maskEnvValue returns whole.
ENV_VALUE_MAX == 50
MAX_FILE_SIZE == 1024 * 1024
\* The bounds of BraveSearchArgsSchema.
BRAVE_MAX_QUERY_LENGTH == 500
BRAVE_DEFAULT_COUNT == 5
SERPAPI_TIMEOUT_MS == 5000
FILE_READ_TIMEOUT_MS == 2000

(***************************************************************************)
(* Bounds of the model.                                                    *)
(***************************************************************************)
\* The clock runs from 0 to MaxTicks * Tick.
MaxTicks == 6
\* checkLimit is offered limits 1..MaxLimit.
MaxLimit == 2
\* A search call is followed for MaxTimeoutTicks half timeouts.
MaxTimeoutTicks == 4
\* Short strings have at most MaxQueryLen characters.
MaxQueryLen == 3
\* The project's .env file has at most MaxEnvLines lines.
MaxEnvLines == 2

\* The clock advances in steps of half a window.
Tick == DEFAULT_WINDOW_MS \div 2
MaxNow == MaxTicks * Tick

VARIABLES
    now,        \* Date.now()
    requests,   \* RateLimiter.requests: Map<string, RateLimitInfo>
    admitted,   \* history: per identifier, the admitted requests still inside the window
    last,       \* history: the last rate limiter call, its arguments and what it found
    limited,    \* history: per identifier, the oldest instant in the window that the
                \* first rejection since its last admission found
    query,      \* the argument of a sanitizeSearchQuery call
    sanitized,  \* what the call returned or threw
    envLine,    \* the parts of the line given to maskEnvValue
    masked,     \* what maskEnvValue returned for it
    cwd,        \* process.cwd()
    fs,         \* the file system: path -> what stat, access and readFile answer
    envLines,   \* history: the parts of the lines of the project's .env file
    fileCall,   \* the last call of the file service
    fileResult, \* what it returned, and the file system calls it made
    reads,      \* the position of each callback of a readProjectFiles call in progress
    appConfig,  \* config: the configuration read from the environment at start
    request,    \* the last tool call: its dispatch path, caller, params and instant
    reply,      \* what the caller received for it
    effects,    \* history: the requests sent and file system calls made for it
    served      \* history: the callers whose search calls the rate limiter admitted

limiterVars == <<now, requests, admitted, last, limited>>
sanitizerVars == <<query, sanitized>>
maskVars == <<envLine, masked>>
fileVars == <<cwd, fs, envLines, fileCall, fileResult, reads>>
dispatchVars == <<appConfig, request, reply, effects, served>>
vars == <<now, requests, admitted, last, limited, query, sanitized, envLine, masked,
          cwd, fs, envLines, fileCall, fileResult, reads, appConfig, request, reply, effects,
          served>>

(***************************************************************************)
(* Rate limiter (src/src/services/rate-limiter.ts).                        *)
(***************************************************************************)
\* The rate limit keys the dispatch paths produce: the literal of the
\* server.tool registrations and generateRateLimitId({ headers: {} }).
Identifiers == {"default", "unknown"}

\* new RateLimiter(): the singleton's defaultConfig.
defaultConfig ==
    [maxRequests |-> DEFAULT_MAX_REQUESTS, windowMs |-> DEFAULT_WINDOW_MS]

\* A mutant of the search config: the limit of the default config.
serpApiConfigDefaultLimit ==
    [maxRequests |-> DEFAULT_MAX_REQUESTS, windowMs |-> SERPAPI_WINDOW_MS]

\* The config SerpApiClient.search passes to checkLimit.
serpApiConfig ==
    [maxRequests |-> SERPAPI_MAX_REQUESTS, windowMs |-> SERPAPI_WINDOW_MS]

\* The configs offered to checkLimit: the window of both domains of the
\* program, and small limits.
Configs ==
    {[maxRequests |-> m, windowMs |-> DEFAULT_WINDOW_MS] : m \in 1..MaxLimit}

\* requests.set(identifier, info)
MapSet(map, key, value) ==
    [k \in (DOMAIN map) \cup {key} |-> IF k = key THEN value ELSE map[k]]

\* A mutant of the filter: an instant exactly one window old is kept.
InWindowInclusive(times, windowStart) ==
    LET Test(time) == time >= windowStart
    IN  SelectSeq(times, Test)

\* info.requests.filter(time => time > windowStart)
InWindow(times, windowStart) ==
    LET Test(time) == time > windowStart
    IN  SelectSeq(times, Test)

\* A mutant of checkLimit: the request is recorded before the limit is checked.
checkLimitRecordsFirst(reqs, identifier, config, t) ==
    LET windowStart == t - config.windowMs
        info == IF identifier \in DOMAIN reqs
                THEN reqs[identifier]
                ELSE [identifier |-> identifier, requests |-> <<>>, lastRequest |-> 0]
        kept == InWindow(info.requests, windowStart)
        recorded == [info EXCEPT !.requests = Append(kept, t), !.lastRequest = t]
    IN  [ok |-> Len(kept) < config.maxRequests,
         requests |-> MapSet(reqs, identifier, recorded)]

\* RateLimiter.checkLimit(identifier, config) at instant t: the result and
\* the map it leaves.
checkLimit(reqs, identifier, config, t) ==
    LET windowStart == t - config.windowMs
        info == IF identifier \in DOMAIN reqs
                THEN reqs[identifier]
                ELSE [identifier |-> identifier, requests |-> <<>>, lastRequest |-> 0]
        kept == InWindow(info.requests, windowStart)
    IN  IF Len(kept) >= config.maxRequests
        THEN [ok |-> FALSE,
              requests |-> MapSet(reqs, identifier, [info EXCEPT !.requests = kept])]
        ELSE [ok |-> TRUE,
              requests |-> MapSet(reqs, identifier,
                  [info EXCEPT !.requests = Append(kept, t), !.lastRequest = t])]

\* A mutant of getRequestCount: the filtered instants are stored, as
\* checkLimit stores them.
getRequestCountPruning(reqs, identifier, windowMs, t) ==
    IF identifier \notin DOMAIN reqs
    THEN [value |-> 0, requests |-> reqs]
    ELSE [value |-> Len(InWindow(reqs[identifier].requests, t - windowMs)),
          requests |-> [reqs EXCEPT ![identifier].requests = InWindow(@, t - windowMs)]]

\* RateLimiter.getRequestCount(identifier, windowMs) at instant t: the
\* number returned and the map it leaves.
getRequestCount(reqs, identifier, windowMs, t) ==
    IF identifier \notin DOMAIN reqs
    THEN [value |-> 0, requests |-> reqs]
    ELSE [value |-> Len(InWindow(reqs[identifier].requests, t - windowMs)),
          requests |-> reqs]

\* A mutant of cleanup: the cutoff is the current instant, not two windows back.
cleanupNoGrace(reqs, t) ==
    LET cutoff == t
        stale == {id \in DOMAIN reqs : reqs[id].lastRequest < cutoff}
    IN  [id \in (DOMAIN reqs) \ stale |-> reqs[id]]

\* A mutant of cleanup: a record whose last request is exactly two windows
\* old is removed too.
cleanupAtCutoff(reqs, t) ==
    LET cutoff == t - (defaultConfig.windowMs * 2)
        stale == {id \in DOMAIN reqs : reqs[id].lastRequest <= cutoff}
    IN  [id \in (DOMAIN reqs) \ stale |-> reqs[id]]

\* RateLimiter.cleanup() at instant t: the map it leaves.
cleanup(reqs, t) ==
    LET cutoff == t - (defaultConfig.windowMs * 2)
        stale == {id \in DOMAIN reqs : reqs[id].lastRequest < cutoff}
    IN  [id \in (DOMAIN reqs) \ stale |-> reqs[id]]

NoCall == [op |-> "none"]

\* History: the admitted requests of an identifier that are still younger
\* than the longest window; older ones share no window with a later request.
Recent(log, t) ==
    LET Test(e) == e.time > t - DEFAULT_WINDOW_MS
    IN  SelectSeq(log, Test)

\* History: the identity was not rejected since its last admission.
NotLimited == [limited |-> FALSE, oldest |-> 0]

LimiterInit ==
    /\ now = 0
    /\ requests = <<>>
    /\ admitted = [id \in Identifiers |-> <<>>]
    /\ limited = [id \in Identifiers |-> NotLimited]
    /\ last = NoCall

\* A request calls rateLimiter.checkLimit(identifier, config).
CheckLimit(identifier, config) ==
    LET r == checkLimit(requests, identifier, config, now)
    IN  /\ requests' = r.requests
        /\ admitted' = IF r.ok
                       THEN [admitted EXCEPT ![identifier] =
                                Append(@, [time |-> now, config |-> config])]
                       ELSE admitted
        /\ limited' = IF r.ok
                      THEN [limited EXCEPT ![identifier] = NotLimited]
                      ELSE IF limited[identifier].limited
                      THEN limited
                      ELSE [limited EXCEPT ![identifier] =
                               [limited |-> TRUE,
                                oldest |-> Head(r.requests[identifier].requests)]]
        /\ last' = [op |-> "checkLimit", identifier |-> identifier,
                    config |-> config, at |-> now, ok |-> r.ok,
                    known |-> identifier \in DOMAIN requests,
                    limitedBefore |-> limited[identifier],
                    before |-> IF identifier \in DOMAIN requests
                               THEN requests[identifier].requests ELSE <<>>,
                    lastRequestBefore |-> IF identifier \in DOMAIN requests
                               THEN requests[identifier].lastRequest ELSE 0]
        /\ UNCHANGED now

\* The windows offered to getRequestCount: the default window and half of it.
CountWindows == {DEFAULT_WINDOW_MS, Tick}

\* A caller asks rateLimiter.getRequestCount(identifier, windowMs).
GetRequestCount(identifier, windowMs) ==
    /\ \E r \in {getRequestCount(requests, identifier, windowMs, now)} :
          /\ requests' = r.requests
          /\ last' = [op |-> "getRequestCount", identifier |-> identifier,
                      windowMs |-> windowMs, at |-> now, value |-> r.value,
                      map |-> requests]
    /\ UNCHANGED <<now, admitted, limited>>

\* The setInterval callback runs rateLimiter.cleanup().
Cleanup ==
    /\ requests' = cleanup(requests, now)
    /\ last' = [op |-> "cleanup", at |-> now, before |-> requests]
    /\ UNCHANGED <<now, admitted, limited>>

\* Time passes.
Advance ==
    /\ now + Tick <= MaxNow
    /\ now' = now + Tick
    /\ admitted' = [id \in Identifiers |-> Recent(admitted[id], now')]
    /\ last' = NoCall
    /\ UNCHANGED <<requests, limited>>

\* The configs of the two rate-limit domains: general operations (the
\* default of checkLimit's config parameter) and search.
DomainConfigs == {defaultConfig, serpApiConfig}

\* Requests of one identity are checked under either domain's config.
DomainNext ==
    \/ \E config \in DomainConfigs : CheckLimit("default", config)
    \/ Advance

\* The rate limiter as the program drives it: checkLimit is called by
\* SerpApiClient.search alone, with the search config, and the cleanup
\* timer runs.
RetryNext ==
    \/ \E identifier \in Identifiers : CheckLimit(identifier, serpApiConfig)
    \/ Cleanup
    \/ Advance

LimiterNext ==
    \/ \E identifier \in Identifiers, config \in Configs :
          CheckLimit(identifier, config)
    \/ \E identifier \in Identifiers, windowMs \in CountWindows :
          GetRequestCount(identifier, windowMs)
    \/ Cleanup
    \/ Advance


(***************************************************************************)
(* Strings: sequences of one-character strings.                            *)
(***************************************************************************)
LowerCase == <<"a", "b", "c", "d", "e", "f", "g", "h", "i", "j", "k", "l", "m", "n", "o", "p", "q", "r", "s", "t", "u", "v", "w", "x", "y", "z">>
UpperCase == <<"A", "B", "C", "D", "E", "F", "G", "H", "I", "J", "K", "L", "M", "N", "O", "P", "Q", "R", "S", "T", "U", "V", "W", "X", "Y", "Z">>
Digits == {"0", "1", "2", "3", "4", "5", "6", "7", "8", "9"}

Range(seq) == {seq[i] : i \in DOMAIN seq}

Minimum(set) == CHOOSE x \in set : \A y \in set : x <= y
Maximum(set) == CHOOSE x \in set : \A y \in set : x >= y

\* The regular expression class \w (no unicode flag): [A-Za-z0-9_].
IsWordChar(c) == c \in Range(LowerCase) \cup Range(UpperCase) \cup Digits \cup {"_"}

\* The regular expression class \s and the characters String.prototype.trim
\* removes: the white space and line terminator characters, of which these
\* are the ones the model's strings use.
IsWhiteSpace(c) == c \in {" ", "\t", "\n", "\r", "\f"}

\* String.prototype.trim
trim(str) ==
    LET solid == {i \in 1..Len(str) : ~IsWhiteSpace(str[i])}
    IN  IF solid = {} THEN <<>> ELSE SubSeq(str, Minimum(solid), Maximum(solid))

\* String.prototype.slice(0, n)
slice0(str, n) == SubSeq(str, 1, IF Len(str) < n THEN Len(str) ELSE n)

\* String.prototype.includes
includes(str, part) ==
    \E i \in 1..(Len(str) - Len(part) + 1) : SubSeq(str, i, i + Len(part) - 1) = part

\* String.prototype.repeat
repeat(c, n) == [i \in 1..n |-> c]

\* All strings over an alphabet of at most n characters.
StringsUpTo(alphabet, n) == UNION {[1..k -> alphabet] : k \in 0..n}

(***************************************************************************)
(* Query sanitization (src/src/utils/logger.ts, security utilities).       *)
(***************************************************************************)
SecurityError(message, details) ==
    [name |-> "SecurityError", message |-> message, details |-> details]

\* The characters /[^\w\s\-_.]/g does not match, which replace() leaves.
QueryCharKept(c) == IsWordChar(c) \/ IsWhiteSpace(c) \/ c \in {"-", "_", "."}

\* A sanitizer that trims before it cuts to MAX_QUERY_LENGTH.
sanitizeSearchQueryTrimFirst(q) ==
    LET clean == slice0(trim(SelectSeq(q, QueryCharKept)), MAX_QUERY_LENGTH)
    IN  IF Len(clean) = 0
        THEN [ok |-> FALSE,
              error |-> SecurityError(<<"Query cannot be empty after sanitization">>, <<>>)]
        ELSE [ok |-> TRUE, value |-> clean]

\* sanitizeSearchQuery(query) for a string: the value returned or the error thrown.
sanitizeSearchQuery(q) ==
    LET clean == trim(slice0(SelectSeq(q, QueryCharKept), MAX_QUERY_LENGTH))
    IN  IF Len(clean) = 0
        THEN [ok |-> FALSE,
              error |-> SecurityError(<<"Query cannot be empty after sanitization">>, <<>>)]
        ELSE [ok |-> TRUE, value |-> clean]

\* The characters of the queries offered to the sanitizer.
QueryAlphabet == {"a", "Z", "7", " ", "\t", "-", "_", ".", "/", ";"}

ShortQueries == StringsUpTo(QueryAlphabet, MaxQueryLen)

\* Queries around the length limit: a run of one character between two
\* strings of at most one character.
LongQueries ==
    {pre \o repeat(c, n) \o post :
        pre \in StringsUpTo(QueryAlphabet, 1), post \in StringsUpTo(QueryAlphabet, 1),
        c \in {"a", " ", "/"},
        n \in {MAX_QUERY_LENGTH - 1, MAX_QUERY_LENGTH, MAX_QUERY_LENGTH + 1}}

QueryInputs == ShortQueries \cup LongQueries

\* No call has returned yet.
NotRun == [ok |-> FALSE, error |-> [name |-> "none", message |-> <<>>, details |-> <<>>]]

SanitizerIdle ==
    /\ query = <<>>
    /\ sanitized = NotRun

SanitizerInit ==
    /\ query \in QueryInputs
    /\ sanitized = NotRun

\* A caller runs sanitizeSearchQuery(query).
Sanitize ==
    /\ sanitized = NotRun
    /\ sanitized' = sanitizeSearchQuery(query)
    /\ UNCHANGED query

(***************************************************************************)
(* Redaction of .env lines (src/src/utils/logger.ts, security utilities).  *)
(***************************************************************************)
\* String.prototype.toUpperCase on the ASCII letters.
toUpperCase(str) ==
    [i \in DOMAIN str |->
        IF str[i] \in Range(LowerCase)
        THEN UpperCase[CHOOSE k \in DOMAIN LowerCase : LowerCase[k] = str[i]]
        ELSE str[i]]

sensitiveKeys ==
    <<<<"K", "E", "Y">>,
      <<"S", "E", "C", "R", "E", "T">>,
      <<"T", "O", "K", "E", "N">>,
      <<"P", "A", "S", "S", "W", "O", "R", "D">>,
      <<"A", "U", "T", "H">>>>

\* trimmed.split('='): the part before the first '=' and, joined by '='
\* again, the parts after it.
SplitAtEquals(str) ==
    LET at == {i \in 1..Len(str) : str[i] = "="}
    IN  IF at = {}
        THEN [key |-> str, hasRest |-> FALSE, rest |-> <<>>]
        ELSE [key |-> SubSeq(str, 1, Minimum(at) - 1), hasRest |-> TRUE,
              rest |-> SubSeq(str, Minimum(at) + 1, Len(str))]

\* A mutant of maskEnvValue: the key is compared without toUpperCase.
maskEnvValueCaseSensitive(line) ==
    LET trimmed == trim(line)
        parts == SplitAtEquals(trimmed)
    IN  IF Len(trimmed) = 0 \/ trimmed[1] = "#" THEN line
        ELSE IF \E k \in DOMAIN sensitiveKeys : includes(parts.key, sensitiveKeys[k])
        THEN parts.key \o <<"=", "*", "*", "*">>
        ELSE IF parts.hasRest /\ Len(parts.rest) > ENV_VALUE_MAX
        THEN parts.key \o <<"=">> \o slice0(parts.rest, ENV_VALUE_MAX) \o <<".", ".", ".">>
        ELSE line

\* A mutant of maskEnvValue: a value of exactly ENV_VALUE_MAX characters is cut too.
maskEnvValueCutAtLimit(line) ==
    LET trimmed == trim(line)
        parts == SplitAtEquals(trimmed)
    IN  IF Len(trimmed) = 0 \/ trimmed[1] = "#" THEN line
        ELSE IF \E k \in DOMAIN sensitiveKeys :
                    includes(toUpperCase(parts.key), sensitiveKeys[k])
        THEN parts.key \o <<"=", "*", "*", "*">>
        ELSE IF parts.hasRest /\ Len(parts.rest) >= ENV_VALUE_MAX
        THEN parts.key \o <<"=">> \o slice0(parts.rest, ENV_VALUE_MAX) \o <<".", ".", ".">>
        ELSE line

\* maskEnvValue(line) for a string.
maskEnvValue(line) ==
    LET trimmed == trim(line)
        parts == SplitAtEquals(trimmed)
    IN  IF Len(trimmed) = 0 \/ trimmed[1] = "#" THEN line
        ELSE IF \E k \in DOMAIN sensitiveKeys :
                    includes(toUpperCase(parts.key), sensitiveKeys[k])
        THEN parts.key \o <<"=", "*", "*", "*">>
        ELSE IF parts.hasRest /\ Len(parts.rest) > ENV_VALUE_MAX
        THEN parts.key \o <<"=">> \o slice0(parts.rest, ENV_VALUE_MAX) \o <<".", ".", ".">>
        ELSE line

\* The keys of the offered lines whose name holds a sensitive marker in some case.
SecretKeyInputs ==
    {<<"A", "P", "I", "_", "K", "E", "Y">>, <<"a", "p", "i", "_", "k", "e", "y">>, <<"D", "b", "_", "P", "a", "s", "s", "w", "o", "r", "d">>,
     <<"e", "x", "p", "o", "r", "t", " ", "J", "W", "T", "_", "S", "E", "C", "R", "E", "T">>, <<"a", "u", "t", "h", "T", "o", "k", "e", "n">>,
     <<"M", "O", "N", "K", "E", "Y">>}

\* The other keys of the offered lines; a key that starts with '#' makes a comment line.
PlainKeyInputs ==
    {<<"P", "O", "R", "T">>, <<"N", "O", "D", "E", "_", "E", "N", "V">>, <<"#", " ", "n", "o", "t", "e">>,
     <<"#", "A", "P", "I", "_", "K", "E", "Y">>, <<"D", "E", "B", "U", "G", " ">>, <<>>}

ValueInputs ==
    {<<>>, <<"a", "b", "c", "d", "e", "f", "1", "2", "3", "4", "5", "6">>, <<"a", "=", "b">>, <<"*", "*", "*">>,
     <<"p", " ", "w">>, repeat("x", ENV_VALUE_MAX), repeat("x", ENV_VALUE_MAX + 1),
     repeat("x", ENV_VALUE_MAX) \o <<" ">>}

\* The offered lines: white space, a key, '=' or nothing, a value.
EnvLineInputs ==
    [indent : {<<>>, <<" ", " ">>},
     key : SecretKeyInputs \cup PlainKeyInputs,
     sep : {<<"=">>, <<>>},
     value : ValueInputs]

\* The text of a line.
LineText(l) == l.indent \o l.key \o l.sep \o l.value

NotMasked == <<"not run">>

MaskIdle ==
    /\ envLine = [indent |-> <<>>, key |-> <<>>, sep |-> <<>>, value |-> <<>>]
    /\ masked = NotMasked

MaskInit ==
    /\ envLine \in EnvLineInputs
    /\ masked = NotMasked

\* A caller runs maskEnvValue(line).
Mask ==
    /\ masked = NotMasked
    /\ masked' = maskEnvValue(LineText(envLine))
    /\ UNCHANGED envLine

(***************************************************************************)
(* Paths (node:path on POSIX, as src/src/services/file-reader.ts uses it)  *)
(* and path validation (src/src/utils/logger.ts, security utilities).      *)
(***************************************************************************)
RECURSIVE SplitFrom(_, _, _)
SplitFrom(str, separators, start) ==
    LET cuts == {i \in start..Len(str) : str[i] \in separators}
    IN  IF cuts = {}
        THEN <<SubSeq(str, start, Len(str))>>
        ELSE <<SubSeq(str, start, Minimum(cuts) - 1)>>
                 \o SplitFrom(str, separators, Minimum(cuts) + 1)

\* String.prototype.split on a class of separator characters.
split(str, separators) == SplitFrom(str, separators, 1)

RECURSIVE joinWith(_, _)
\* Array.prototype.join
joinWith(parts, separator) ==
    IF parts = <<>> THEN <<>>
    ELSE IF Len(parts) = 1 THEN parts[1]
    ELSE parts[1] \o separator \o joinWith(Tail(parts), separator)

DotDot == <<".", ".">>

RECURSIVE NormalizeSegments(_, _, _)
\* node:path normalizeString: '.' and empty segments are dropped, '..'
\* removes the segment before it.
NormalizeSegments(segments, kept, allowAboveRoot) ==
    IF segments = <<>> THEN kept
    ELSE LET segment == Head(segments)
             rest == Tail(segments)
         IN  IF segment = <<>> \/ segment = <<".">>
             THEN NormalizeSegments(rest, kept, allowAboveRoot)
             ELSE IF segment = DotDot
             THEN IF kept # <<>> /\ kept[Len(kept)] # DotDot
                  THEN NormalizeSegments(rest, SubSeq(kept, 1, Len(kept) - 1), allowAboveRoot)
                  ELSE IF allowAboveRoot
                  THEN NormalizeSegments(rest, Append(kept, segment), allowAboveRoot)
                  ELSE NormalizeSegments(rest, kept, allowAboveRoot)
             ELSE NormalizeSegments(rest, Append(kept, segment), allowAboveRoot)

\* node:path posix.normalize
normalize(path) ==
    IF Len(path) = 0 THEN <<".">>
    ELSE LET isAbsolute == path[1] = "/"
             trailingSeparator == path[Len(path)] = "/"
             body == joinWith(NormalizeSegments(split(path, {"/"}), <<>>, ~isAbsolute), <<"/">>)
         IN  IF Len(body) = 0
             THEN (IF isAbsolute THEN <<"/">> ELSE IF trailingSeparator THEN <<".", "/">> ELSE <<".">>)
             ELSE (IF isAbsolute THEN <<"/">> ELSE <<>>) \o body
                      \o (IF trailingSeparator THEN <<"/">> ELSE <<>>)

\* node:path posix.join(a, b)
join(a, b) ==
    IF Len(a) = 0 /\ Len(b) = 0 THEN <<".">>
    ELSE IF Len(b) = 0 THEN normalize(a)
    ELSE IF Len(a) = 0 THEN normalize(b)
    ELSE normalize(a \o <<"/">> \o b)

\* node:path posix.resolve of an absolute path: `/${normalizeString(path)}`
resolve(path) ==
    <<"/">> \o joinWith(NormalizeSegments(split(path, {"/"}), <<>>, FALSE), <<"/">>)

\* filePath.split(/[\\/]/).pop() || ''
LastComponent(path) ==
    LET parts == split(path, {"/", "\\"})
    IN  parts[Len(parts)]

README_md == <<"R", "E", "A", "D", "M", "E", ".", "m", "d">>
dot_env == <<".", "e", "n", "v">>
CHANGELOG == <<"C", "H", "A", "N", "G", "E", "L", "O", "G">>
CHANGELOG_md == <<"C", "H", "A", "N", "G", "E", "L", "O", "G", ".", "m", "d">>
package_json == <<"p", "a", "c", "k", "a", "g", "e", ".", "j", "s", "o", "n">>
tsconfig_json == <<"t", "s", "c", "o", "n", "f", "i", "g", ".", "j", "s", "o", "n">>

\* The allowedFiles of validateFilePath and of FileReaderService, in order.
allowedFiles == <<README_md, dot_env, CHANGELOG, CHANGELOG_md, package_json, tsconfig_json>>

\* validateFilePath(filePath) for a string: the value returned or the error thrown.
validateFilePath(filePath) ==
    IF includes(filePath, DotDot) \/ includes(filePath, <<"~">>)
    THEN [ok |-> FALSE,
          error |-> SecurityError(<<"Directory traversal not allowed">>, <<>>)]
    ELSE LET fileName == LastComponent(filePath)
         IN  IF fileName \notin Range(allowedFiles)
             THEN [ok |-> FALSE,
                   error |-> SecurityError(<<"File ">> \o fileName \o <<" not allowed">>, <<>>)]
             ELSE [ok |-> TRUE, value |-> filePath]

(***************************************************************************)
(* The file system as node:fs/promises shows it to the file service.       *)
(* fs[path].size is what stat reports, fs[path].content what readFile      *)
(* yields; a path outside DOMAIN fs does not exist.                        *)
(***************************************************************************)
ErrnoError(code, description, syscall, path) ==
    [name |-> "Error", code |-> code,
     message |-> <<code, ": ", description, ", ", syscall, " '">> \o path \o <<"'">>]

NoEntry(syscall, path) == ErrnoError("ENOENT", "no such file or directory", syscall, path)
NoAccess(syscall, path) == ErrnoError("EACCES", "permission denied", syscall, path)

\* fs.stat(path)
stat(files, path) ==
    IF path \notin DOMAIN files
    THEN [ok |-> FALSE, error |-> NoEntry("stat", path)]
    ELSE [ok |-> TRUE, value |-> [size |-> files[path].size]]

\* fs.access(path, fs.constants.R_OK)
access(files, path) ==
    IF path \notin DOMAIN files
    THEN [ok |-> FALSE, error |-> NoEntry("access", path)]
    ELSE IF ~files[path].readable
    THEN [ok |-> FALSE, error |-> NoAccess("access", path)]
    ELSE [ok |-> TRUE]

\* readFileWithTimeout(filePath): fs.readFile raced against the abort timer.
readFileWithTimeout(files, filePath) ==
    IF filePath \notin DOMAIN files
    THEN [ok |-> FALSE, error |-> NoEntry("open", filePath)]
    ELSE IF ~files[filePath].readable
    THEN [ok |-> FALSE, error |-> NoAccess("open", filePath)]
    ELSE IF files[filePath].slow
    THEN [ok |-> FALSE,
          error |-> [name |-> "Error", code |-> "none", message |-> <<"File read timeout">>]]
    ELSE [ok |-> TRUE, value |-> files[filePath].content]

FsCall(op, path) == [op |-> op, path |-> path]

(***************************************************************************)
(* File service (src/src/services/file-reader.ts).                         *)
(***************************************************************************)
DecimalDigits == <<"0", "1", "2", "3", "4", "5", "6", "7", "8", "9">>

RECURSIVE ToDecimal(_)
\* String(n) for a natural number.
ToDecimal(n) ==
    IF n < 10 THEN <<DecimalDigits[n + 1]>>
    ELSE Append(ToDecimal(n \div 10), DecimalDigits[(n % 10) + 1])

\* Math.round(size / 1024)
RoundKB(size) == (2 * size + 1024) \div 2048

\* `## ${filename}\n${body}\n\n`
Section(filename, body) == <<"## ">> \o filename \o <<"\n">> \o body \o <<"\n", "\n">>

readRegularFile(files, filePath, filename) ==
    LET absolutePath == resolve(filePath)
        stats == stat(files, absolutePath)
        content == readFileWithTimeout(files, absolutePath)
    IN  IF ~stats.ok
        THEN [text |-> Section(filename, <<"(Error reading file: ">> \o stats.error.message \o <<")">>),
              calls |-> <<FsCall("stat", absolutePath)>>]
        ELSE IF stats.value.size > MAX_FILE_SIZE
        THEN [text |-> Section(filename, <<"(File too large to read - ">>
                                   \o ToDecimal(RoundKB(stats.value.size)) \o <<"KB)">>),
              calls |-> <<FsCall("stat", absolutePath)>>]
        ELSE IF ~content.ok
        THEN [text |-> Section(filename, <<"(Error reading file: ">> \o content.error.message \o <<")">>),
              calls |-> <<FsCall("stat", absolutePath), FsCall("readFile", absolutePath)>>]
        ELSE [text |-> Section(filename, content.value),
              calls |-> <<FsCall("stat", absolutePath), FsCall("readFile", absolutePath)>>]

\* rawContent.split('\n').map(line => maskEnvValue(line)).join('\n')
MaskLines(rawContent) ==
    LET lines == split(rawContent, {"\n"})
    IN  joinWith([i \in 1..Len(lines) |-> maskEnvValue(lines[i])], <<"\n">>)

\* A mutant of readEnvFile: the content is included as read.
readEnvFileUnmasked(files, filePath, filename) ==
    LET absolutePath == resolve(filePath)
        rawContent == readFileWithTimeout(files, absolutePath)
    IN  IF ~rawContent.ok
        THEN [text |-> Section(filename, <<"(Error reading environment file: ">>
                                   \o rawContent.error.message \o <<")">>),
              calls |-> <<FsCall("readFile", absolutePath)>>]
        ELSE [text |-> Section(filename, rawContent.value),
              calls |-> <<FsCall("readFile", absolutePath)>>]

readEnvFile(files, filePath, filename) ==
    LET absolutePath == resolve(filePath)
        rawContent == readFileWithTimeout(files, absolutePath)
    IN  IF ~rawContent.ok
        THEN [text |-> Section(filename, <<"(Error reading environment file: ">>
                                   \o rawContent.error.message \o <<")">>),
              calls |-> <<FsCall("readFile", absolutePath)>>]
        ELSE [text |-> Section(filename, MaskLines(rawContent.value)),
              calls |-> <<FsCall("readFile", absolutePath)>>]

\* A callback that leaves out the block of a path that is not allowed.
ReadOneSkippingRejected(files, filePath) ==
    LET last_ == LastComponent(filePath)
        filename == IF last_ = <<>> THEN <<"unknown">> ELSE last_
    IN  IF ~validateFilePath(filePath).ok
        THEN [path |-> filePath, text |-> <<>>, calls |-> <<>>]
        ELSE IF filename = dot_env
        THEN [path |-> filePath] @@ readEnvFile(files, filePath, filename)
        ELSE [path |-> filePath] @@ readRegularFile(files, filePath, filename)

\* The callback readProjectFiles maps over the joined paths.
ReadOne(files, filePath) ==
    LET last_ == LastComponent(filePath)
        filename == IF last_ = <<>> THEN <<"unknown">> ELSE last_
    IN  IF ~validateFilePath(filePath).ok
        THEN [path |-> filePath,
              text |-> Section(filename, <<"(File not found or unreadable)">>),
              calls |-> <<>>]
        ELSE IF filename = dot_env
        THEN [path |-> filePath] @@ readEnvFile(files, filePath, filename)
        ELSE [path |-> filePath] @@ readRegularFile(files, filePath, filename)

RECURSIVE Flatten(_)
Flatten(seqs) == IF seqs = <<>> THEN <<>> ELSE Head(seqs) \o Flatten(Tail(seqs))

\* readProjectFiles(): the combined content, and per file the path offered
\* and the file system calls made for it (in the order of allowedFiles; the
\* reads of Promise.all touch disjoint paths).
readProjectFiles(files, dir) ==
    LET result(i) == ReadOne(files, join(dir, allowedFiles[i]))
    IN  [value |-> joinWith([i \in 1..Len(allowedFiles) |-> result(i).text], <<"\n">>),
         files |-> [i \in 1..Len(allowedFiles) |-> [path |-> result(i).path, calls |-> result(i).calls]],
         calls |-> Flatten([i \in 1..Len(allowedFiles) |-> result(i).calls])]

isFileAccessible(files, dir, filename) ==
    LET filePath == join(dir, filename)
    IN  IF ~validateFilePath(filePath).ok
        THEN [value |-> FALSE, calls |-> <<>>]
        ELSE [value |-> access(files, filePath).ok,
              calls |-> <<FsCall("access", filePath)>>]

\* getFileInfo's null.
Null == [null |-> TRUE]

getFileInfo(files, dir, filename) ==
    LET filePath == join(dir, filename)
        stats == stat(files, filePath)
    IN  IF ~validateFilePath(filePath).ok
        THEN [value |-> Null, calls |-> <<>>]
        ELSE IF ~stats.ok
        THEN [value |-> Null, calls |-> <<FsCall("stat", filePath)>>]
        ELSE [value |-> [filename |-> filename, content |-> <<>>, size |-> stats.value.size],
              calls |-> <<FsCall("stat", filePath)>>]

(***************************************************************************)
(* The working directories, file systems and file names the file service   *)
(* is run on.                                                              *)
(***************************************************************************)
AppDir == <<"/", "a", "p", "p", "/", "w", "e", "b">>
Cwds == {AppDir, <<"/", "s", "r", "v", "/", "~", "b", "o", "t">>}

\* A file as the file system answers for it.
\* slow: readFile does not answer within the timeout; hangs: no call on the
\* file ever answers.
File(content) ==
    [size |-> Len(content), content |-> content, readable |-> TRUE, slow |-> FALSE,
     hangs |-> FALSE]
Unreadable(content) == [File(content) EXCEPT !.readable = FALSE]
Slow(content) == [File(content) EXCEPT !.slow = TRUE]
\* A file of the given size; its content stands for that many characters.
Sized(size) == [File(<<"(", "t", "e", "x", "t", ")">>) EXCEPT !.size = size]

\* The text of a .env file with the given lines.
EnvContent(lines) == joinWith([i \in 1..Len(lines) |-> LineText(lines[i])], <<"\n">>)

\* The files outside every working directory.
Outside ==
    (<<"/", "a", "p", "p", "/", "o", "t", "h", "e", "r", "/", ".", "e", "n", "v">> :> File(<<"D", "B", "_", "P", "A", "S", "S", "W", "O", "R", "D", "=", "h", "u", "n", "t", "e", "r", "2">>))
    @@ (<<"/", "e", "t", "c", "/", "p", "a", "s", "s", "w", "d">> :> File(<<"r", "o", "o", "t", ":", "x", ":", "0", ":", "0">>))
    @@ (<<"/", "s", "r", "v", "/", ".", "e", "n", "v">> :> File(<<"D", "B", "_", "P", "A", "S", "S", "W", "O", "R", "D", "=", "h", "u", "n", "t", "e", "r", "2">>))

\* A project in dir: a readable README.md and package.json, the .env file,
\* an unreadable tsconfig.json and a CHANGELOG.md over the size limit.
FullProject(dir, lines) ==
    (join(dir, README_md) :> File(<<"#", " ", "w", "e", "b">>))
    @@ (join(dir, dot_env) :> File(EnvContent(lines)))
    @@ (join(dir, package_json) :> File(<<"{", "}">>))
    @@ (join(dir, tsconfig_json) :> Unreadable(<<"{", "}">>))
    @@ (join(dir, CHANGELOG_md) :> Sized(MAX_FILE_SIZE + 1))

\* A project whose README.md and .env are never read to the end and whose
\* package.json is exactly at the size limit.
SlowProject(dir, lines) ==
    (join(dir, README_md) :> Slow(<<"#", " ", "w", "e", "b">>))
    @@ (join(dir, dot_env) :> Slow(EnvContent(lines)))
    @@ (join(dir, package_json) :> Sized(MAX_FILE_SIZE))

\* A project whose .env file is over the size limit.
LargeEnvProject(dir) ==
    (join(dir, README_md) :> File(<<"#", " ", "w", "e", "b">>))
    @@ (join(dir, dot_env) :> Sized(MAX_FILE_SIZE + 1))

FileSystems(dir, lines) ==
    {FullProject(dir, lines) @@ Outside, SlowProject(dir, lines) @@ Outside,
     LargeEnvProject(dir) @@ Outside, Outside}

\* The file names offered to isFileAccessible and getFileInfo.
FilenameInputs ==
    {README_md, dot_env, package_json, tsconfig_json, CHANGELOG, CHANGELOG_md,
     <<"s", "e", "c", "r", "e", "t", ".", "t", "x", "t">>, <<".", ".", "/", ".", ".", "/", "e", "t", "c", "/", "p", "a", "s", "s", "w", "d">>, <<".", ".", "/", "o", "t", "h", "e", "r", "/", ".", "e", "n", "v">>, <<".", ".", "/", ".", "e", "n", "v">>, <<"~", "/", ".", "e", "n", "v">>, <<"s", "u", "b", "/", ".", "e", "n", "v">>, <<".", "/", ".", "e", "n", "v">>, <<"/", "e", "t", "c", "/", "p", "a", "s", "s", "w", "d">>, <<"a", "\\", ".", "e", "n", "v">>, <<"R", "E", "A", "D", "M", "E", ".", "m", "d", "/">>, <<>>, <<".", ".", "e", "n", "v">>, <<"s", "u", "b", "/", ".", ".", "/", ".", "e", "n", "v">>}

\* The lines a project's .env file is made of.
FileLineInputs ==
    [indent : {<<>>},
     key : {<<"A", "P", "I", "_", "K", "E", "Y">>, <<"a", "p", "i", "_", "k", "e", "y">>, <<"P", "O", "R", "T">>, <<"#", "A", "P", "I", "_", "K", "E", "Y">>},
     sep : {<<"=">>},
     value : {<<"a", "b", "c", "d", "e", "f", "1", "2", "3", "4", "5", "6">>, <<"*", "*", "*">>, repeat("x", ENV_VALUE_MAX + 1)}]

RECURSIVE SeqsOfLen(_, _)
SeqsOfLen(set, n) ==
    IF n = 0 THEN {<<>>}
    ELSE {Append(lines, l) : lines \in SeqsOfLen(set, n - 1), l \in set}

EnvFiles == UNION {SeqsOfLen(FileLineInputs, n) : n \in 1..MaxEnvLines}

NoFileCall == [op |-> "none", filename |-> <<>>]
\* No readProjectFiles call is in progress.
NoReads == <<>>
NoFileResult == [value |-> Null, calls |-> <<>>]

FileIdle ==
    /\ cwd = AppDir
    /\ fs = <<>>
    /\ envLines = <<>>
    /\ fileCall = NoFileCall
    /\ fileResult = NoFileResult
    /\ reads = NoReads

\* The file service in each working directory on each file system.
FileInit ==
    /\ cwd \in Cwds
    /\ envLines = <<[indent |-> <<>>, key |-> <<"A", "P", "I", "_", "K", "E", "Y">>, sep |-> <<"=">>, value |-> <<"a", "b", "c", "d", "e", "f", "1", "2", "3", "4", "5", "6">>]>>
    /\ fs \in FileSystems(cwd, envLines)
    /\ fileCall = NoFileCall
    /\ fileResult = NoFileResult
    /\ reads = NoReads

\* The file service in a project with each offered .env file.
DisclosureInit ==
    /\ cwd = AppDir
    /\ envLines \in EnvFiles
    /\ fs = FullProject(cwd, envLines) @@ Outside
    /\ fileCall = NoFileCall
    /\ fileResult = NoFileResult
    /\ reads = NoReads

ReadProjectFiles ==
    /\ fileCall' = [op |-> "readProjectFiles", filename |-> <<>>]
    /\ fileResult' = readProjectFiles(fs, cwd)
    /\ UNCHANGED <<cwd, fs, envLines, reads>>

IsFileAccessible(filename) ==
    /\ fileCall' = [op |-> "isFileAccessible", filename |-> filename]
    /\ fileResult' = isFileAccessible(fs, cwd, filename)
    /\ UNCHANGED <<cwd, fs, envLines, reads>>

GetFileInfo(filename) ==
    /\ fileCall' = [op |-> "getFileInfo", filename |-> filename]
    /\ fileResult' = getFileInfo(fs, cwd, filename)
    /\ UNCHANGED <<cwd, fs, envLines, reads>>

FileNext ==
    \/ ReadProjectFiles
    \/ \E filename \in FilenameInputs : IsFileAccessible(filename)
    \/ \E filename \in FilenameInputs : GetFileInfo(filename)

(***************************************************************************)
(* readProjectFiles in progress: the callbacks of Promise.all, each at its *)
(* await of fs.stat or of the race between fs.readFile and the timer.      *)
(***************************************************************************)
\* Time passes in steps of half the read timeout.
ReadTick == FILE_READ_TIMEOUT_MS \div 2

\* A file no call on which ever answers (a mount that stopped answering).
Hung(content) == [File(content) EXCEPT !.hangs = TRUE, !.slow = TRUE]

\* A project with a README.md no call on which ever answers and a .env
\* file that is never read to the end.
HungProject(dir, lines) ==
    (join(dir, README_md) :> Hung(<<"#", " ", "w", "e", "b">>))
    @@ (join(dir, dot_env) :> Slow(EnvContent(lines)))
    @@ (join(dir, package_json) :> File(<<"{", "}">>))

\* A project with a .env file no call on which ever answers.
HungEnvProject(dir, lines) ==
    (join(dir, dot_env) :> Hung(EnvContent(lines)))
    @@ (join(dir, package_json) :> File(<<"{", "}">>))

ReadingFileSystems(dir, lines) ==
    {FullProject(dir, lines) @@ Outside, SlowProject(dir, lines) @@ Outside,
     HungEnvProject(dir, lines) @@ Outside, HungProject(dir, lines) @@ Outside}

\* The position of a callback: at an await, with its local variables, or
\* returned with its block.
Awaiting(stage, filePath, filename) ==
    [stage |-> stage, filename |-> filename, absolutePath |-> resolve(filePath), elapsed |-> 0]
Returned(text) == [stage |-> "returned", text |-> text]

\* The path and the file name of the i-th callback.
FilePathOf(i) == join(cwd, allowedFiles[i])
FileNameOf(i) ==
    IF LastComponent(FilePathOf(i)) = <<>> THEN <<"unknown">> ELSE LastComponent(FilePathOf(i))

\* Whether fs.stat and fs.readFile answer for a path.
StatAnswersFor(path) == ~(path \in DOMAIN fs /\ fs[path].hangs)
ReadAnswersFor(path) == ~(path \in DOMAIN fs /\ fs[path].slow)

ReadingInit ==
    /\ cwd = AppDir
    /\ envLines = <<[indent |-> <<>>, key |-> <<"A", "P", "I", "_", "K", "E", "Y">>, sep |-> <<"=">>, value |-> <<"a", "b", "c", "d", "e", "f", "1", "2", "3", "4", "5", "6">>]>>
    /\ fs \in ReadingFileSystems(cwd, envLines)
    /\ fileCall = NoFileCall
    /\ fileResult = NoFileResult
    /\ reads = NoReads

\* readProjectFiles is called: every callback runs up to its first await.
StartReading ==
    /\ fileCall = NoFileCall
    /\ fileCall' = [op |-> "readProjectFiles", filename |-> <<>>]
    /\ reads' = [i \in DOMAIN allowedFiles |->
                    IF ~validateFilePath(FilePathOf(i)).ok
                    THEN Returned(Section(FileNameOf(i), <<"(File not found or unreadable)">>))
                    ELSE IF FileNameOf(i) = dot_env
                    THEN Awaiting("readFile", FilePathOf(i), FileNameOf(i))
                    ELSE Awaiting("stat", FilePathOf(i), FileNameOf(i))]
    /\ UNCHANGED <<cwd, fs, envLines, fileResult>>

\* fs.stat settles for a callback of readRegularFile.
StatSettles(i) ==
    /\ reads # NoReads
    /\ reads[i].stage = "stat"
    /\ StatAnswersFor(reads[i].absolutePath)
    /\ \E stats \in {stat(fs, reads[i].absolutePath)} :
          reads' = [reads EXCEPT ![i] =
              IF ~stats.ok
              THEN Returned(Section(reads[i].filename,
                       <<"(Error reading file: ">> \o stats.error.message \o <<")">>))
              ELSE IF stats.value.size > MAX_FILE_SIZE
              THEN Returned(Section(reads[i].filename, <<"(File too large to read - ">>
                       \o ToDecimal(RoundKB(stats.value.size)) \o <<"KB)">>))
              ELSE [reads[i] EXCEPT !.stage = "readFile"]]
    /\ UNCHANGED <<cwd, fs, envLines, fileCall, fileResult>>

\* fs.readFile settles before the timer of readFileWithTimeout fires.
ReadSettles(i) ==
    /\ reads # NoReads
    /\ reads[i].stage = "readFile"
    /\ reads[i].elapsed < FILE_READ_TIMEOUT_MS
    /\ ReadAnswersFor(reads[i].absolutePath)
    /\ reads' = [reads EXCEPT ![i] =
          Returned(IF reads[i].filename = dot_env
                   THEN readEnvFile(fs, reads[i].absolutePath, reads[i].filename).text
                   ELSE readRegularFile(fs, reads[i].absolutePath, reads[i].filename).text)]
    /\ UNCHANGED <<cwd, fs, envLines, fileCall, fileResult>>

\* The timer of readFileWithTimeout fires: the race is lost to the timeout.
ReadTimerFires(i) ==
    /\ reads # NoReads
    /\ reads[i].stage = "readFile"
    /\ reads[i].elapsed >= FILE_READ_TIMEOUT_MS
    /\ reads' = [reads EXCEPT ![i] =
          Returned(Section(reads[i].filename,
              (IF reads[i].filename = dot_env
               THEN <<"(Error reading environment file: ">>
               ELSE <<"(Error reading file: ">>) \o <<"File read timeout", ")">>))]
    /\ UNCHANGED <<cwd, fs, envLines, fileCall, fileResult>>

\* Time passes for the timers that run; a timer that is due fires first.
ReadingTimePasses ==
    /\ reads # NoReads
    /\ \E i \in DOMAIN reads : reads[i].stage = "readFile"
    /\ \A i \in DOMAIN reads : reads[i].stage = "readFile" => reads[i].elapsed < FILE_READ_TIMEOUT_MS
    /\ reads' = [i \in DOMAIN reads |->
                    IF reads[i].stage = "readFile"
                    THEN [reads[i] EXCEPT !.elapsed = @ + ReadTick]
                    ELSE reads[i]]
    /\ UNCHANGED <<cwd, fs, envLines, fileCall, fileResult>>

\* Promise.all resolves; readProjectFiles returns results.join('\n').
ReadingResolves ==
    /\ reads # NoReads
    /\ fileResult = NoFileResult
    /\ \A i \in DOMAIN reads : reads[i].stage = "returned"
    /\ fileResult' = [value |-> joinWith([i \in DOMAIN reads |-> reads[i].text], <<"\n">>)]
    /\ UNCHANGED <<cwd, fs, envLines, fileCall, reads>>

ReadingNext ==
    \/ StartReading
    \/ \E i \in DOMAIN allowedFiles : StatSettles(i)
    \/ \E i \in DOMAIN allowedFiles : ReadSettles(i)
    \/ \E i \in DOMAIN allowedFiles : ReadTimerFires(i)
    \/ ReadingTimePasses
    \/ ReadingResolves

(***************************************************************************)
(* Configuration (src/src/config/environment.ts, constants.ts).            *)
(***************************************************************************)
DEFAULT_SITES ==
    <<"stackoverflow.com", "stackexchange.com", "reddit.com",
      "github.com", "docs.python.org", "docs.oracle.com",
      "learn.microsoft.com", "developer.mozilla.org", "kotlinlang.org",
      "go.dev", "rust-lang.org", "docs.ruby-lang.org",
      "nodejs.org", "pypi.org", "maven.apache.org",
      "platform.openai.com", "docs.anthropic.com", "ai.google.dev",
      "platform.openai.com/docs", "platform.openai.com/api-reference", "docs.anthropic.com/claude",
      "ai.google.dev/gemini", "modelcontextprotocol.io", "modelcontextprotocol.io/tutorials",
      "modelcontextprotocol.io/docs", "modelcontextprotocol.io/examples">>

\* config.searchSites
searchSites(config) ==
    IF Len(config.siteFilter) > 0 THEN config.siteFilter ELSE DEFAULT_SITES

\* config.isProduction
isProduction(config) == config.nodeEnv = "production"

\* SerpApiClient.isConfigured()
isConfigured(config) == config.serpApiKey # "" /\ config.serpApiKey # "test_key"

(***************************************************************************)
(* JSON values and the argument schemas (src/src/types/mcp-types.ts).      *)
(***************************************************************************)
Undefined == [type |-> "undefined"]
Str(chars) == [type |-> "string", value |-> chars]
Num(n) == [type |-> "number", number |-> n]
Obj(fields) == [type |-> "object", fields |-> fields]

\* input[key], undefined when the object has no such key.
Get(object, key) ==
    IF key \in DOMAIN object.fields THEN object.fields[key] ELSE Undefined

Issue(path, code, message) == [path |-> path, code |-> code, message |-> message]

\* The issues of z.string().min(min, tooShort).max(max, tooLong) at the path.
StringIssues(value, path, min, max, tooShort, tooLong) ==
    IF value.type = "undefined" THEN <<Issue(path, "invalid_type", "Required")>>
    ELSE IF value.type # "string"
    THEN <<Issue(path, "invalid_type", "Expected string, received " \o value.type)>>
    ELSE IF Len(value.value) < min THEN <<Issue(path, "too_small", tooShort)>>
    ELSE IF Len(value.value) > max THEN <<Issue(path, "too_big", tooLong)>>
    ELSE <<>>

\* The issues of z.number().int().min(1).max(10).default(5) at the path.
CountIssues(value, path) ==
    IF value.type = "undefined" THEN <<>>
    ELSE IF value.type # "number"
    THEN <<Issue(path, "invalid_type", "Expected number, received " \o value.type)>>
    ELSE IF value.number < 1 THEN <<Issue(path, "too_small", "Number must be greater than or equal to 1")>>
    ELSE IF value.number > 10 THEN <<Issue(path, "too_big", "Number must be less than or equal to 10")>>
    ELSE <<>>

\* The issue of z.object(...) for an input that is no object.
ObjectIssues(input) ==
    IF input.type = "object" THEN <<>>
    ELSE IF input.type = "undefined" THEN <<Issue(<<>>, "invalid_type", "Required")>>
    ELSE <<Issue(<<>>, "invalid_type", "Expected object, received " \o input.type)>>

Parsed(issues, data) ==
    IF issues = <<>> THEN [success |-> TRUE, data |-> data, issues |-> <<>>]
    ELSE [success |-> FALSE, data |-> <<>>, issues |-> issues]

\* KillTripArgsSchema.safeParse(input)
KillTripArgsSchema(input) ==
    IF input.type # "object" THEN Parsed(ObjectIssues(input), <<>>)
    ELSE Parsed(StringIssues(Get(input, "query"), <<"query">>, 1, MAX_QUERY_LENGTH,
                             "Query cannot be empty", "Query too long"),
                [query |-> Get(input, "query").value])

\* SoberThinkingArgsSchema.safeParse(input)
SoberThinkingArgsSchema(input) == Parsed(ObjectIssues(input), <<>>)

\* BraveSearchArgsSchema.safeParse(input)
BraveSearchArgsSchema(input) ==
    IF input.type # "object" THEN Parsed(ObjectIssues(input), <<>>)
    ELSE Parsed(StringIssues(Get(input, "query"), <<"query">>, 1, BRAVE_MAX_QUERY_LENGTH,
                             "Query cannot be empty", "Query too long")
                    \o CountIssues(Get(input, "count"), <<"count">>),
                [query |-> Get(input, "query").value,
                 count |-> IF Get(input, "count").type = "undefined" THEN BRAVE_DEFAULT_COUNT
                           ELSE Get(input, "count").number])

\* validateToolInput(schema, input), result being schema.safeParse(input):
\* the data returned or the error thrown.
validateToolInput(result) ==
    IF result.success
    THEN [ok |-> TRUE, value |-> result.data]
    ELSE [ok |-> FALSE, error |-> SecurityError(<<"Invalid input">>, result.issues)]

RECURSIVE IssuesText(_)
\* The message of a ZodError: its issues with their code, path and message.
IssuesText(issues) ==
    IF issues = <<>> THEN <<>>
    ELSE <<"{ code: ", Head(issues).code, ", path: [">> \o Head(issues).path
             \o <<"], message: ", Head(issues).message, " }">> \o IssuesText(Tail(issues))

\* schema.parse(input), result being schema.safeParse(input): the data
\* returned or the ZodError thrown.
parse(result) ==
    IF result.success
    THEN [ok |-> TRUE, value |-> result.data]
    ELSE [ok |-> FALSE,
          error |-> [name |-> "ZodError", message |-> IssuesText(result.issues),
                     details |-> result.issues]]

(***************************************************************************)
(* Errors and result envelopes.                                            *)
(***************************************************************************)
\* new ToolExecutionError(toolName, message)
ToolExecutionError(toolName, message) ==
    [name |-> "ToolExecutionError",
     message |-> <<"Tool '", toolName, "' execution failed: ">> \o message,
     details |-> <<>>]

\* A thrown value that is no Error.
NonError == [name |-> "(no Error)", message |-> <<>>, details |-> <<>>]

\* error.stack
Stack(error) == <<"Error: ">> \o error.message \o <<"\n", "    at (stack frames)">>

\* sanitizeErrorMessage(error, isProduction)
sanitizeErrorMessage(error, production) ==
    IF error = NonError THEN <<"An unknown error occurred">>
    ELSE IF production
    THEN (IF error.message # <<>> THEN error.message ELSE <<"An error occurred">>)
    ELSE Stack(error)

TextContent(text) == <<[type |-> "text", text |-> text]>>

\* { isError: true, content: [{ type: 'text', text }] }
ErrorResult(text) == [isError |-> TRUE, content |-> TextContent(text)]

(***************************************************************************)
(* SerpAPI client (src/src/services/serpapi.ts).                           *)
(***************************************************************************)
\* What fetch and response.json() give: a rejection, or a response.
Rejects(name, message) ==
    [kind |-> "rejects", error |-> [name |-> name, message |-> message, details |-> <<>>],
     ok |-> FALSE, status |-> "0", statusText |-> "", apiError |-> <<>>, results |-> <<>>]
Responds(status, statusText) ==
    [kind |-> "response", error |-> NonError,
     ok |-> FALSE, status |-> status, statusText |-> statusText, apiError |-> <<>>, results |-> <<>>]
RespondsOk(apiError, results) ==
    [kind |-> "response", error |-> NonError,
     ok |-> TRUE, status |-> "200", statusText |-> "OK", apiError |-> apiError, results |-> results]

\* A mutant of extractBestResult: an empty result set is answered like a
\* result without title or snippet.
extractBestResultNoSentinel(results) ==
    IF Len(results) = 0 \/ results[1].title = "" \/ results[1].snippet = ""
    THEN <<"Search completed but no detailed results were available.">>
    ELSE <<"**", results[1].title, "**", "\n", "\n", results[1].snippet, "\n", "\n",
           "U+1F4D6 Source: ", results[1].link>>

\* extractBestResult(data); the open book sign before Source is written by
\* its code point.
extractBestResult(results) ==
    IF Len(results) = 0
    THEN <<"No relevant documentation found. The query may be too specific or the information might not be available in the configured documentation sites.">>
    ELSE IF results[1].title = "" \/ results[1].snippet = ""
    THEN <<"Search completed but no detailed results were available.">>
    ELSE <<"**", results[1].title, "**", "\n", "\n", results[1].snippet, "\n", "\n",
           "U+1F4D6 Source: ", results[1].link>>

\* `site:(${config.searchSites.join(' OR ')})`
sitePart(config) ==
    <<"site:(">>
        \o joinWith([i \in 1..Len(searchSites(config)) |-> <<searchSites(config)[i]>>], <<" OR ">>)
        \o <<")">>

\* The request search() sends.
SerpApiRequest(config, sanitizedQuery) ==
    [backend |-> "https://serpapi.com/search.json", hasQuery |-> TRUE,
     q |-> sitePart(config) \o <<" ">> \o sanitizedQuery]

\* A mutant of the catch block of search(): a timeout is rethrown like any
\* other failed request.
searchRethrowTimeoutAsFailure(error) ==
    IF error.name = "ToolExecutionError" THEN error
    ELSE IF error = NonError
    THEN ToolExecutionError("kill_trip", <<"Unknown error during SerpAPI request">>)
    ELSE IF error.name = "AbortError"
    THEN ToolExecutionError("kill_trip", <<"SerpAPI request was aborted">>)
    ELSE ToolExecutionError("kill_trip", <<"SerpAPI request failed: ">> \o error.message)

\* The catch block of search(): what is thrown for a caught error.
searchRethrow(error) ==
    IF error.name = "ToolExecutionError" THEN error
    ELSE IF error = NonError
    THEN ToolExecutionError("kill_trip", <<"Unknown error during SerpAPI request">>)
    ELSE IF error.name = "TimeoutError"
    THEN ToolExecutionError("kill_trip", <<"SerpAPI request timed out">>)
    ELSE IF error.name = "AbortError"
    THEN ToolExecutionError("kill_trip", <<"SerpAPI request was aborted">>)
    ELSE ToolExecutionError("kill_trip", <<"SerpAPI request failed: ">> \o error.message)

\* A search that sends its request a second time when the first one failed.
searchRetrying(reqs, config, q, rateLimitId, t, upstream) ==
    LET limit == checkLimit(reqs, rateLimitId, serpApiConfig, t)
        sanitizedQuery == sanitizeSearchQuery(q)
        Thrown(error, sent, outcome) ==
            [ok |-> FALSE, error |-> searchRethrow(error), requests |-> limit.requests,
             outbound |-> sent, outcome |-> outcome]
    IN  IF ~limit.ok
        THEN Thrown(ToolExecutionError("kill_trip", <<"Rate limit exceeded for SerpAPI requests">>),
                    <<>>, "rate limit")
        ELSE IF ~sanitizedQuery.ok
        THEN Thrown(sanitizedQuery.error, <<>>, "sanitization")
        ELSE LET sent == <<SerpApiRequest(config, sanitizedQuery.value)>>
             IN  IF upstream.kind = "rejects"
                 THEN Thrown(upstream.error, sent \o sent, "upstream")
                 ELSE IF ~upstream.ok
                 THEN Thrown(ToolExecutionError("kill_trip",
                                 <<"SerpAPI request failed with status ", upstream.status, ": ",
                                   upstream.statusText>>), sent \o sent, "upstream")
                 ELSE IF upstream.apiError # <<>>
                 THEN Thrown(ToolExecutionError("kill_trip",
                                 <<"SerpAPI error: ">> \o upstream.apiError), sent \o sent, "upstream")
                 ELSE [ok |-> TRUE, value |-> extractBestResult(upstream.results),
                       requests |-> limit.requests, outbound |-> sent, outcome |-> "ok"]

\* A search that sanitizes the query before it asks the rate limiter.
searchSanitizingFirst(reqs, config, q, rateLimitId, t, upstream) ==
    LET limit == checkLimit(reqs, rateLimitId, serpApiConfig, t)
        sanitizedQuery == sanitizeSearchQuery(q)
        Thrown(error, sent, outcome) ==
            [ok |-> FALSE, error |-> searchRethrow(error), requests |-> limit.requests,
             outbound |-> sent, outcome |-> outcome]
    IN  IF ~sanitizedQuery.ok
        THEN [ok |-> FALSE, error |-> searchRethrow(sanitizedQuery.error), requests |-> reqs,
              outbound |-> <<>>, outcome |-> "sanitization"]
        ELSE IF ~limit.ok
        THEN Thrown(ToolExecutionError("kill_trip", <<"Rate limit exceeded for SerpAPI requests">>),
                    <<>>, "rate limit")
        ELSE LET sent == <<SerpApiRequest(config, sanitizedQuery.value)>>
             IN  IF upstream.kind = "rejects"
                 THEN Thrown(upstream.error, sent, "upstream")
                 ELSE IF ~upstream.ok
                 THEN Thrown(ToolExecutionError("kill_trip",
                                 <<"SerpAPI request failed with status ", upstream.status, ": ",
                                   upstream.statusText>>), sent, "upstream")
                 ELSE IF upstream.apiError # <<>>
                 THEN Thrown(ToolExecutionError("kill_trip",
                                 <<"SerpAPI error: ">> \o upstream.apiError), sent, "upstream")
                 ELSE [ok |-> TRUE, value |-> extractBestResult(upstream.results),
                       requests |-> limit.requests, outbound |-> sent, outcome |-> "ok"]

\* search(query, rateLimitId) at instant t with the backend answering upstream:
\* the string returned or the error thrown, the rate limiter's map and the
\* requests sent.
search(reqs, config, q, rateLimitId, t, upstream) ==
    LET limit == checkLimit(reqs, rateLimitId, serpApiConfig, t)
        sanitizedQuery == sanitizeSearchQuery(q)
        Thrown(error, sent, outcome) ==
            [ok |-> FALSE, error |-> searchRethrow(error), requests |-> limit.requests,
             outbound |-> sent, outcome |-> outcome]
    IN  IF ~limit.ok
        THEN Thrown(ToolExecutionError("kill_trip", <<"Rate limit exceeded for SerpAPI requests">>),
                    <<>>, "rate limit")
        ELSE IF ~sanitizedQuery.ok
        THEN Thrown(sanitizedQuery.error, <<>>, "sanitization")
        ELSE LET sent == <<SerpApiRequest(config, sanitizedQuery.value)>>
             IN  IF upstream.kind = "rejects"
                 THEN Thrown(upstream.error, sent, "upstream")
                 ELSE IF ~upstream.ok
                 THEN Thrown(ToolExecutionError("kill_trip",
                                 <<"SerpAPI request failed with status ", upstream.status, ": ",
                                   upstream.statusText>>), sent, "upstream")
                 ELSE IF upstream.apiError # <<>>
                 THEN Thrown(ToolExecutionError("kill_trip",
                                 <<"SerpAPI error: ">> \o upstream.apiError), sent, "upstream")
                 ELSE [ok |-> TRUE, value |-> extractBestResult(upstream.results),
                       requests |-> limit.requests, outbound |-> sent, outcome |-> "ok"]

(***************************************************************************)
(* Tool handlers (src/unnamed/part_002, part_005,                          *)
(* src/src/tools/brave-search/handler.ts).  Each gives the envelope it     *)
(* returns, the rate limiter's map, the requests sent and the file system  *)
(* calls made; outcome and issues tell the branch taken (history).         *)
(***************************************************************************)
\* The params of a call: the tool name and the other keys of the object.
Params(name, fields) == [type |-> "object", name |-> name, fields |-> fields]

Handled(result, reqs, outbound, fsCalls, outcome, issues) ==
    [result |-> result, requests |-> reqs, outbound |-> outbound, fsCalls |-> fsCalls,
     outcome |-> outcome, issues |-> issues]

executeKillTrip(reqs, files, dir, config, params, context, t, upstream) ==
    LET args == validateToolInput(KillTripArgsSchema(Get(params, "arguments")))
        searchResult == search(reqs, config, args.value.query, context.rateLimitId, t, upstream)
    IN  IF ~args.ok
        THEN Handled(ErrorResult(sanitizeErrorMessage(args.error, isProduction(config))),
                     reqs, <<>>, <<>>, "validation", args.error.details)
        ELSE IF ~isConfigured(config)
        THEN Handled(ErrorResult(<<"SerpAPI not configured. Please set SERPAPI_KEY environment variable.">>),
                     reqs, <<>>, <<>>, "not configured", <<>>)
        ELSE IF ~searchResult.ok
        THEN Handled(ErrorResult(sanitizeErrorMessage(searchResult.error, isProduction(config))),
                     searchResult.requests, searchResult.outbound, <<>>, searchResult.outcome, <<>>)
        ELSE Handled([isError |-> FALSE, content |-> TextContent(searchResult.value),
                      structuredContent |-> [result |-> searchResult.value]],
                     searchResult.requests, searchResult.outbound, <<>>, "ok", <<>>)

executeSoberThinking(reqs, files, dir, config, params, context, t, upstream) ==
    LET args == validateToolInput(SoberThinkingArgsSchema(Get(params, "arguments")))
        fileContents == readProjectFiles(files, dir)
    IN  IF ~args.ok
        THEN Handled(ErrorResult(sanitizeErrorMessage(args.error, isProduction(config))),
                     reqs, <<>>, <<>>, "validation", args.error.details)
        ELSE Handled([isError |-> FALSE, content |-> TextContent(fileContents.value),
                      structuredContent |-> [content |-> fileContents.value]],
                     reqs, <<>>, fileContents.calls, "ok", <<>>)

\* The request executeBraveSearch sends.
BraveRequest ==
    [backend |-> "https://api.search.brave.com/res/v1/web/search", hasQuery |-> FALSE, q |-> <<>>]

RECURSIVE BraveItems(_)
\* The results as JSON.stringify prints them.
BraveItems(results) ==
    IF results = <<>> THEN <<>>
    ELSE <<"{ title: ", IF Head(results).title = "" THEN "Untitled" ELSE Head(results).title,
           ", url: ", Head(results).link, ", snippet: ", Head(results).snippet, " }">>
             \o BraveItems(Tail(results))

\* JSON.stringify(result, null, 2) of { results, query, resultCount }
BraveResultText(results, q) ==
    <<"{ results: [">> \o BraveItems(results) \o <<"], query: ">> \o q
        \o <<", resultCount: ">> \o ToDecimal(Len(results)) \o <<" }">>

executeBraveSearch(reqs, files, dir, config, params, context, t, upstream) ==
    LET args == parse(BraveSearchArgsSchema(params))
        results == SubSeq(upstream.results, 1, Minimum({args.value.count, Len(upstream.results)}))
    IN  IF ~args.ok
        THEN Handled(ErrorResult(<<"Brave Search failed: ">> \o args.error.message),
                     reqs, <<>>, <<>>, "validation", args.error.details)
        ELSE IF config.braveSearchApiKey = ""
        THEN Handled(ErrorResult(<<"Brave Search API key not configured. Set BRAVE_SEARCH_API_KEY environment variable.">>),
                     reqs, <<>>, <<>>, "not configured", <<>>)
        ELSE IF upstream.kind = "rejects"
        THEN Handled(ErrorResult(<<"Brave Search failed: ">> \o upstream.error.message),
                     reqs, <<BraveRequest>>, <<>>, "upstream", <<>>)
        ELSE IF ~upstream.ok
        THEN Handled(ErrorResult(<<"Brave Search API error: ", upstream.status>>),
                     reqs, <<BraveRequest>>, <<>>, "upstream", <<>>)
        ELSE Handled([isError |-> FALSE,
                      content |-> TextContent(BraveResultText(results, args.value.query))],
                     reqs, <<BraveRequest>>, <<>>, "ok", <<>>)

(***************************************************************************)
(* Dispatch: the tools/call request handler and the server.tool            *)
(* registrations (src/src/server.ts), the registry (src/unnamed/part_004). *)
(***************************************************************************)
\* The keys of toolRegistry.
toolRegistry == {"kill_trip", "sober_thinking", "brave_search"}

\* generateRateLimitId(req)
generateRateLimitId(req) ==
    IF "x-real-ip" \in DOMAIN req.headers THEN req.headers["x-real-ip"]
    ELSE IF "x-forwarded-for" \in DOMAIN req.headers THEN req.headers["x-forwarded-for"]
    ELSE "unknown"

\* The executor registered under the name, run.
RunExecutor(name, reqs, files, dir, config, params, context, t, upstream) ==
    CASE name = "kill_trip" -> executeKillTrip(reqs, files, dir, config, params, context, t, upstream)
      [] name = "sober_thinking" -> executeSoberThinking(reqs, files, dir, config, params, context, t, upstream)
      [] name = "brave_search" -> executeBraveSearch(reqs, files, dir, config, params, context, t, upstream)

NoFault == [name |-> "(none)", message |-> <<>>, details |-> <<>>]

\* try { return await executor(params, context) } catch (error) { ... }:
\* what the executor did stands, the error is answered.
catchError(handled, fault, config) ==
    IF fault # NoFault
    THEN [handled EXCEPT !.result = ErrorResult(sanitizeErrorMessage(fault, isProduction(config))),
                         !.outcome = "handler exception"]
    ELSE handled

\* A mutant of the tools/call handler: an unknown name is answered with an
\* empty success.
callToolAnyName(reqs, files, dir, config, params, t, upstream, fault) ==
    IF params.name \notin toolRegistry
    THEN Handled([isError |-> FALSE, content |-> <<>>],
                 reqs, <<>>, <<>>, "unknown operation", <<>>)
    ELSE catchError(RunExecutor(params.name, reqs, files, dir, config, params,
                                [rateLimitId |-> generateRateLimitId([headers |-> <<>>])],
                                t, upstream),
                    fault, config)

\* The tools/call request handler for params at instant t; fault is the
\* exception that escapes the executor, if one does.
callTool(reqs, files, dir, config, params, t, upstream, fault) ==
    IF params.name \notin toolRegistry
    THEN Handled(ErrorResult(<<"Tool '", params.name, "' not found">>),
                 reqs, <<>>, <<>>, "unknown operation", <<>>)
    ELSE catchError(RunExecutor(params.name, reqs, files, dir, config, params,
                                [rateLimitId |-> generateRateLimitId([headers |-> <<>>])],
                                t, upstream),
                    fault, config)

\* return { content: result.content }
ContentOnly(handled) ==
    Handled([content |-> handled.result.content], handled.requests, handled.outbound,
            handled.fsCalls, handled.outcome, handled.issues)

\* The callback of server.tool(name, ...) for the arguments the SDK parsed.
toolCallback(name, reqs, files, dir, config, args, t, upstream) ==
    ContentOnly(RunExecutor(name, reqs, files, dir, config,
                            Params(name, [arguments |-> args]),
                            [rateLimitId |-> "default"], t, upstream))

(***************************************************************************)
(* The configurations, calls and backend answers the dispatch paths are    *)
(* run on.                                                                 *)
(***************************************************************************)
\* SERPAPI_KEY is never empty (EnvironmentSchema); an unset
\* BRAVE_SEARCH_API_KEY and an unset SITE_FILTER are "" and <<>>.
Environments ==
    {[nodeEnv |-> "production", serpApiKey |-> "sk-live", braveSearchApiKey |-> "bsa-live",
      siteFilter |-> <<>>],
     [nodeEnv |-> "development", serpApiKey |-> "sk-live", braveSearchApiKey |-> "",
      siteFilter |-> <<"react.dev", "nodejs.org">>],
     [nodeEnv |-> "production", serpApiKey |-> "test_key", braveSearchApiKey |-> "bsa-live",
      siteFilter |-> <<"docs.python.org">>]}

\* The values a caller gives as arguments.
ArgumentInputs ==
    {Obj(<<>>),
     Obj([query |-> Str(<<>>)]),
     Obj([query |-> Num(7)]),
     Obj([query |-> Str(<<"r", "e", "a", "c", "t", " ", "h", "o", "o", "k", "s">>)]),
     Obj([query |-> Str(<<"a", "\t", "b", " ", "<", "s", "c", "r", "i", "p", "t", ">">>)]),
     Obj([query |-> Str(<<"!", "?", "!">>)]),
     Obj([query |-> Str(repeat("x", MAX_QUERY_LENGTH + 1))]),
     Obj([query |-> Str(<<"r", "u", "s", "t">>), count |-> Num(3)]),
     Obj([query |-> Str(<<"r", "u", "s", "t">>), count |-> Num(11)])}

ToolNames == toolRegistry \cup {"strategic_plan", "rm_rf"}

\* The params of tools/call requests: no arguments, arguments, or the
\* argument keys beside the name.
ToolsCallParams ==
    {Params(name, <<>>) : name \in ToolNames}
        \cup {Params(name, [arguments |-> a]) : name \in ToolNames, a \in ArgumentInputs}
        \cup {Params(name, a.fields) : name \in ToolNames,
                  a \in {Obj([query |-> Str(<<"r", "e", "a", "c", "t", " ", "h", "o", "o", "k", "s">>)]),
                         Obj([query |-> Str(<<"r", "u", "s", "t">>), count |-> Num(11)])}}

\* The schema server.tool registers for the name.
RegisteredShape(name, args) ==
    CASE name = "kill_trip" -> KillTripArgsSchema(args)
      [] name = "sober_thinking" -> SoberThinkingArgsSchema(args)
      [] name = "brave_search" -> BraveSearchArgsSchema(args)

\* The answers of a search backend.
Upstreams ==
    {Rejects("TimeoutError", <<"The operation was aborted due to timeout">>),
     Rejects("TypeError", <<"fetch failed">>),
     Responds("500", "Internal Server Error"),
     RespondsOk(<<"Invalid API key.">>, <<>>),
     RespondsOk(<<>>, <<>>),
     RespondsOk(<<>>, <<[title |-> "useEffect", snippet |-> "Synchronize a component with an external system.",
                         link |-> "https://react.dev/reference/react/useEffect"]>>)}

\* The backend's answer in the calls where the executor throws.
NoAnswer == Rejects("TimeoutError", <<"The operation was aborted due to timeout">>)

\* The exceptions that escape an executor.
Faults ==
    {[name |-> "Error", message |-> <<"write EPIPE">>, details |-> <<>>],
     [name |-> "Error", message |-> <<>>, details |-> <<>>],
     NonError}

\* The network origins of the callers connected to the server.
Callers == {"203.0.113.7", "198.51.100.9"}

\* The backend's answers a handler of the name can receive.
UpstreamsOf(name) ==
    IF name \in {"kill_trip", "brave_search"} THEN Upstreams ELSE {NoAnswer}

NoRequest ==
    [path |-> "none", caller |-> "none", params |-> Params("none", <<>>), at |-> 0,
     before |-> <<>>]
NoReply == [envelope |-> [content |-> <<>>], outcome |-> "none", issues |-> <<>>]
NoEffects == [outbound |-> <<>>, answers |-> <<>>, fsCalls |-> <<>>]

\* The call appended the instant t to the record of some identifier.
Admitted(before, after, t) ==
    \E id \in DOMAIN after :
        /\ after[id].requests # <<>>
        /\ after[id].requests[Len(after[id].requests)] = t
        /\ Len(after[id].requests) >
               (IF id \in DOMAIN before
                THEN Len(InWindow(before[id].requests, t - serpApiConfig.windowMs))
                ELSE 0)

DispatchIdle ==
    /\ appConfig = [nodeEnv |-> "test", serpApiKey |-> "test_key", braveSearchApiKey |-> "",
                 siteFilter |-> <<>>]
    /\ request = NoRequest
    /\ reply = NoReply
    /\ effects = NoEffects
    /\ served = {}

\* The server after start, in a project directory.
DispatchInit ==
    /\ appConfig \in Environments
    /\ request = NoRequest
    /\ reply = NoReply
    /\ effects = NoEffects
    /\ served = {}
    /\ cwd = AppDir
    /\ envLines = <<[indent |-> <<>>, key |-> <<"A", "P", "I", "_", "K", "E", "Y">>, sep |-> <<"=">>, value |-> <<"a", "b", "c", "d", "e", "f", "1", "2", "3", "4", "5", "6">>]>>
    /\ fs = FullProject(cwd, envLines) @@ Outside
    /\ fileCall = NoFileCall
    /\ fileResult = NoFileResult
    /\ reads = NoReads

\* The state after a call was handled.  Calls are handled one at a time: the
\* handlers touch the rate limiter only before their first await.
Answered(path, caller, params, upstream, handled) ==
    /\ request' = [path |-> path, caller |-> caller, params |-> params, at |-> now,
                   before |-> requests]
    /\ requests' = handled.requests
    /\ reply' = [envelope |-> handled.result, outcome |-> handled.outcome, issues |-> handled.issues]
    /\ effects' = [outbound |-> handled.outbound,
                   answers |-> IF handled.outbound = <<>> THEN <<>> ELSE <<upstream>>,
                   fsCalls |-> handled.fsCalls]
    /\ served' = IF Admitted(requests, handled.requests, now)
                 THEN served \cup {caller} ELSE served
    /\ UNCHANGED <<now, admitted, last, limited, appConfig, fileVars>>

\* A tools/call request is handled; upstream is the backend's answer to the
\* request the handler sends, if it sends one.
ToolsCall(caller, params) ==
    /\ request = NoRequest
    /\ \E upstream \in UpstreamsOf(params.name) :
          \E handled \in {callTool(requests, fs, cwd, appConfig, params, now, upstream, NoFault)} :
              Answered("tools/call", caller, params, upstream, handled)

\* A tools/call request is handled and an exception escapes the executor.
ToolsCallFault(caller, params, fault) ==
    /\ request = NoRequest
    /\ params.name \in toolRegistry
    /\ \E handled \in {callTool(requests, fs, cwd, appConfig, params, now, NoAnswer, fault)} :
          Answered("tools/call", caller, params, NoAnswer, handled)

\* A tool registered with server.tool is called with arguments of its shape.
ServerTool(caller, name, args) ==
    /\ request = NoRequest
    /\ RegisteredShape(name, args).success
    /\ \E upstream \in UpstreamsOf(name) :
          \E handled \in {toolCallback(name, requests, fs, cwd, appConfig, args, now, upstream)} :
              Answered("server.tool", caller, Params(name, [arguments |-> args]), upstream, handled)

\* The reply is sent to the caller.
Deliver ==
    /\ request # NoRequest
    /\ request' = NoRequest
    /\ reply' = NoReply
    /\ effects' = NoEffects
    /\ UNCHANGED <<limiterVars, appConfig, served, fileVars>>

DispatchNext ==
    \/ \E params \in ToolsCallParams, caller \in Callers : ToolsCall(caller, params)
    \/ \E params \in ToolsCallParams, fault \in Faults, caller \in Callers :
           ToolsCallFault(caller, params, fault)
    \/ \E name \in toolRegistry, args \in ArgumentInputs, caller \in Callers :
           ServerTool(caller, name, args)
    \/ Deliver

\* The answers of a healthy backend.
HealthyAnswers == {u \in Upstreams : u.kind = "response" /\ u.ok /\ u.apiError = <<>>}

\* Arguments of kill_trip that pass the schema and the sanitizer.
SearchArguments ==
    {Obj([query |-> Str(<<"r", "e", "a", "c", "t", " ", "h", "o", "o", "k", "s">>)]),
     Obj([query |-> Str(<<"r", "u", "s", "t">>), count |-> Num(3)])}

\* A kill_trip call with good arguments is handled while the backend is healthy.
HealthySearchCall(caller, args) ==
    /\ ToolsCall(caller, Params("kill_trip", [arguments |-> args]))
    /\ \A i \in DOMAIN effects'.answers : effects'.answers[i] \in HealthyAnswers

\* Time passes between the calls.
WindowAdvance ==
    /\ Advance
    /\ UNCHANGED <<dispatchVars, fileVars>>

WindowNext ==
    \/ \E caller \in Callers, args \in SearchArguments : HealthySearchCall(caller, args)
    \/ Deliver
    \/ WindowAdvance

\* What AbortSignal.timeout(TIMEOUTS.SERPAPI_TIMEOUT_MS) makes fetch reject with.
TimeoutAbort == Rejects("TimeoutError", <<"The operation was aborted due to timeout">>)

\* The search request of the call was sent and fetch has not settled.
Pending == request # NoRequest /\ reply = NoReply

\* The first kill_trip call after start, with good arguments, runs up to its
\* await of fetch; a call that sends no request is answered at once.
StartSearch(caller, args) ==
    /\ request = NoRequest
    /\ requests = <<>>
    /\ now + SERPAPI_TIMEOUT_MS <= MaxTimeoutTicks * (SERPAPI_TIMEOUT_MS \div 2)
    /\ \E params \in {Params("kill_trip", [arguments |-> args])} :
          \E handled \in {callTool(requests, fs, cwd, appConfig, params, now, TimeoutAbort, NoFault)} :
              IF handled.outbound = <<>>
              THEN Answered("tools/call", caller, params, TimeoutAbort, handled)
              ELSE /\ request' = [path |-> "tools/call", caller |-> caller, params |-> params,
                                  at |-> now, before |-> requests]
                   /\ requests' = handled.requests
                   /\ reply' = NoReply
                   /\ effects' = [outbound |-> handled.outbound, answers |-> <<>>, fsCalls |-> <<>>]
                   /\ served' = served \cup {caller}
                   /\ UNCHANGED <<now, admitted, last, limited, appConfig, fileVars>>

\* fetch settles with the answer and the call runs to its end.
Settle(upstream) ==
    /\ Pending
    /\ \E handled \in {callTool(request.before, fs, cwd, appConfig, request.params, request.at,
                                 upstream, NoFault)} :
          /\ reply' = [envelope |-> handled.result, outcome |-> handled.outcome,
                       issues |-> handled.issues]
          /\ effects' = [effects EXCEPT !.answers = <<upstream>>]
    /\ UNCHANGED <<limiterVars, appConfig, request, served, fileVars>>

\* The backend answers, or the transport fails, before the timeout.
BackendAnswers(upstream) ==
    /\ now - request.at < SERPAPI_TIMEOUT_MS
    /\ upstream # TimeoutAbort
    /\ Settle(upstream)

\* The timer of AbortSignal.timeout fires.
TimerFires ==
    /\ now - request.at >= SERPAPI_TIMEOUT_MS
    /\ Settle(TimeoutAbort)

\* Half a timeout passes; the timer fires when it is due.
TimePasses ==
    /\ ~(Pending /\ now - request.at >= SERPAPI_TIMEOUT_MS)
    /\ now + (SERPAPI_TIMEOUT_MS \div 2) <= MaxTimeoutTicks * (SERPAPI_TIMEOUT_MS \div 2)
    /\ now' = now + (SERPAPI_TIMEOUT_MS \div 2)
    /\ UNCHANGED <<requests, admitted, last, limited, dispatchVars, fileVars>>

\* The reply of a settled call is sent to the caller.
DeliverSettled ==
    /\ ~Pending
    /\ Deliver

TimeoutNext ==
    \/ \E caller \in Callers, args \in SearchArguments : StartSearch(caller, args)
    \/ \E upstream \in Upstreams : BackendAnswers(upstream)
    \/ TimerFires
    \/ TimePasses
    \/ DeliverSettled

(***************************************************************************)
(* Specifications.                                                         *)
(***************************************************************************)
\* The rate limiter under checkLimit calls, cleanup runs and passing time.
Init ==
    /\ LimiterInit
    /\ SanitizerIdle
    /\ MaskIdle
    /\ FileIdle
    /\ DispatchIdle

Next ==
    /\ LimiterNext
    /\ UNCHANGED <<sanitizerVars, maskVars, fileVars, dispatchVars>>

Spec == Init /\ [][Next]_vars

\* The rate limiter under the search domain's requests.
NextRetry ==
    /\ RetryNext
    /\ UNCHANGED <<sanitizerVars, maskVars, fileVars, dispatchVars>>

SpecRetry == Init /\ [][NextRetry]_vars

\* The rate limiter used by both rate-limit domains.
NextDomains ==
    /\ DomainNext
    /\ UNCHANGED <<sanitizerVars, maskVars, fileVars, dispatchVars>>

SpecDomains == Init /\ [][NextDomains]_vars

\* A readProjectFiles call followed from its start to its return.  The
\* operating system answers the calls it answers at all, timers that are
\* due fire, and time passes.
InitReading ==
    /\ LimiterInit
    /\ SanitizerIdle
    /\ MaskIdle
    /\ ReadingInit
    /\ DispatchIdle

NextReading ==
    /\ ReadingNext
    /\ UNCHANGED <<limiterVars, sanitizerVars, maskVars, dispatchVars>>

SpecReading ==
    /\ InitReading
    /\ [][NextReading]_vars
    /\ WF_vars((\E i \in DOMAIN allowedFiles : StatSettles(i))
                   /\ UNCHANGED <<limiterVars, sanitizerVars, maskVars, dispatchVars>>)
    /\ WF_vars((\E i \in DOMAIN allowedFiles : ReadTimerFires(i))
                   /\ UNCHANGED <<limiterVars, sanitizerVars, maskVars, dispatchVars>>)
    /\ WF_vars(ReadingTimePasses /\ UNCHANGED <<limiterVars, sanitizerVars, maskVars, dispatchVars>>)
    /\ WF_vars(ReadingResolves /\ UNCHANGED <<limiterVars, sanitizerVars, maskVars, dispatchVars>>)

\* sanitizeSearchQuery applied to each offered query.
InitSanitizer ==
    /\ LimiterInit
    /\ SanitizerInit
    /\ MaskIdle
    /\ FileIdle
    /\ DispatchIdle

NextSanitizer ==
    /\ Sanitize
    /\ UNCHANGED <<limiterVars, maskVars, fileVars, dispatchVars>>

SpecSanitizer == InitSanitizer /\ [][NextSanitizer]_vars

\* maskEnvValue applied to each offered line.
InitMask ==
    /\ LimiterInit
    /\ SanitizerIdle
    /\ MaskInit
    /\ FileIdle
    /\ DispatchIdle

NextMask ==
    /\ Mask
    /\ UNCHANGED <<limiterVars, sanitizerVars, fileVars, dispatchVars>>

SpecMask == InitMask /\ [][NextMask]_vars

\* The file service called on each offered file name.
InitFiles ==
    /\ LimiterInit
    /\ SanitizerIdle
    /\ MaskIdle
    /\ FileInit
    /\ DispatchIdle

NextFiles ==
    /\ FileNext
    /\ UNCHANGED <<limiterVars, sanitizerVars, maskVars, dispatchVars>>

SpecFiles == InitFiles /\ [][NextFiles]_vars

\* readProjectFiles run on a project with each offered .env file.
InitDisclosure ==
    /\ LimiterInit
    /\ SanitizerIdle
    /\ MaskIdle
    /\ DisclosureInit
    /\ DispatchIdle

NextDisclosure ==
    /\ ReadProjectFiles
    /\ UNCHANGED <<limiterVars, sanitizerVars, maskVars, dispatchVars>>

SpecDisclosure == InitDisclosure /\ [][NextDisclosure]_vars

\* Tool calls on both dispatch paths.
InitDispatch ==
    /\ LimiterInit
    /\ SanitizerIdle
    /\ MaskIdle
    /\ DispatchInit

NextDispatch ==
    /\ DispatchNext
    /\ UNCHANGED <<sanitizerVars, maskVars>>

SpecDispatch == InitDispatch /\ [][NextDispatch]_vars

\* Search calls of callers against a healthy, configured backend while time
\* passes.
InitWindow ==
    /\ InitDispatch
    /\ isConfigured(appConfig)

NextWindow ==
    /\ WindowNext
    /\ UNCHANGED <<sanitizerVars, maskVars>>

SpecWindow == InitWindow /\ [][NextWindow]_vars

\* Search calls in flight: the backend answers in time or the timer fires.
\* Time passes and a due timer fires (the event loop runs its timers); the
\* backend need not ever answer.
NextTimeout ==
    /\ TimeoutNext
    /\ UNCHANGED <<sanitizerVars, maskVars>>

SpecTimeout ==
    /\ InitWindow
    /\ [][NextTimeout]_vars
    /\ WF_vars(TimePasses /\ UNCHANGED <<sanitizerVars, maskVars>>)
    /\ WF_vars(TimerFires /\ UNCHANGED <<sanitizerVars, maskVars>>)

(***************************************************************************)
(* Claims about the rate limiter.                                          *)
(***************************************************************************)
Rejected == last.op = "checkLimit" /\ ~last.ok

Instants == {k * Tick : k \in 0..MaxTicks}

\* The requests of an identifier admitted under a config within (t - windowMs, t].
AdmittedWithin(identifier, config, t) ==
    Cardinality({i \in 1..Len(admitted[identifier]) :
        /\ admitted[identifier][i].config = config
        /\ admitted[identifier][i].time > t - config.windowMs
        /\ admitted[identifier][i].time <= t})

\* C2: under any interleaving of checkLimit calls and cleanup runs, for every
\* identifier and config the number of requests admitted under that config
\* whose instants fall within a span (t - windowMs, t] never exceeds maxRequests.
C2_WindowNeverExceeded ==
    \A identifier \in Identifiers, config \in Configs, t \in Instants :
        AdmittedWithin(identifier, config, t) <= config.maxRequests

\* C2 witness: a cleanup run follows the admission of maxRequests requests of
\* an identifier inside one window.
C2_Witness ==
    /\ last.op = "cleanup"
    /\ \E identifier \in Identifiers, config \in Configs :
          /\ AdmittedWithin(identifier, config, now) = config.maxRequests
          /\ now > 0

(***************************************************************************)
(* Claims about the sanitizer.                                             *)
(***************************************************************************)
IsLetter(c) == c \in Range(LowerCase) \cup Range(UpperCase)

\* C4: sanitizeSearchQuery either fails because the result is empty, or
\* returns a non-empty string of length at most 200 in which every character
\* is a letter, a digit, a space, a hyphen, an underscore or a dot.
C4_SanitizedCharacters ==
    (sanitized # NotRun /\ sanitized.ok) =>
        /\ Len(sanitized.value) > 0
        /\ Len(sanitized.value) <= 200
        /\ \A i \in 1..Len(sanitized.value) :
              \/ IsLetter(sanitized.value[i])
              \/ sanitized.value[i] \in Digits
              \/ sanitized.value[i] \in {" ", "-", "_", "."}

(***************************************************************************)
(* Claims about the redaction of .env lines.                               *)
(***************************************************************************)
\* Two characters that are equal or the two cases of one letter.
SameIgnoringCase(c, d) ==
    \/ c = d
    \/ \E k \in DOMAIN LowerCase : {c, d} = {LowerCase[k], UpperCase[k]}

\* The string holds the marker, whatever the case of its letters.
HoldsMarker(str, marker) ==
    \E i \in 0..(Len(str) - Len(marker)) :
        \A j \in 1..Len(marker) : SameIgnoringCase(str[i + j], marker[j])

\* A key=value line: it has an '=' and is no comment line.
IsKeyValueLine(l) == l.sep = <<"=">> /\ l.key # <<>> /\ l.key[1] # "#"

\* The key of the line holds one of KEY, SECRET, TOKEN, PASSWORD, AUTH.
HasSecretKey(l) ==
    \E marker \in {<<"K", "E", "Y">>, <<"S", "E", "C", "R", "E", "T">>,
                   <<"T", "O", "K", "E", "N">>, <<"A", "U", "T", "H">>,
                   <<"P", "A", "S", "S", "W", "O", "R", "D">>} :
        HoldsMarker(l.key, marker)

\* C6: for every key=value line whose key contains, case-insensitively, one
\* of the sensitive markers, maskEnvValue returns key=*** whatever the value.
C6_SecretKeyMasked ==
    (masked # NotMasked /\ IsKeyValueLine(envLine) /\ HasSecretKey(envLine)) =>
        masked = envLine.key \o <<"=", "*", "*", "*">>

\* C6 witness: an indented line with a lower-case sensitive key and a
\* non-empty value has been masked.
C6_Witness ==
    /\ masked # NotMasked
    /\ envLine.key = <<"a", "p", "i", "_", "k", "e", "y">>
    /\ envLine.indent # <<>>
    /\ envLine.sep = <<"=">>
    /\ Len(envLine.value) > ENV_VALUE_MAX

(***************************************************************************)
(* Claims about the file service.                                          *)
(***************************************************************************)
\* The line is a key=value line whose key holds a sensitive marker.
IsSecretLine(l) == IsKeyValueLine(l) /\ HasSecretKey(l)

\* The values a sensitive key may have in another .env file.
SecretValues == {l.value : l \in FileLineInputs} \cup {<<"h", "u", "n", "t", "e", "r", "2">>}

\* The .env files that differ from lines at most in the values of sensitive keys.
Twins(lines) ==
    {other \in [1..Len(lines) -> [indent : {<<>>}, key : {l.key : l \in FileLineInputs},
                                  sep : {<<"=">>}, value : SecretValues]] :
        \A i \in 1..Len(lines) :
            IF IsSecretLine(lines[i])
            THEN other[i] = [lines[i] EXCEPT !.value = other[i].value]
            ELSE other[i] = lines[i]}

\* The file system with the project's .env file replaced.
WithEnvFile(files, dir, lines) ==
    (join(dir, dot_env) :> File(EnvContent(lines))) @@ files

\* C5: the combined output of readProjectFiles is the same for every .env
\* file that differs only in the values of key=value lines with a sensitive
\* key, and each such line appears in it as key=***.
C5_OutputIndependentOfSecrets ==
    fileCall.op = "readProjectFiles" =>
        /\ \A other \in Twins(envLines) :
              readProjectFiles(WithEnvFile(fs, cwd, other), cwd).value = fileResult.value
        /\ \A i \in 1..Len(envLines) :
              IsSecretLine(envLines[i]) =>
                  includes(fileResult.value,
                           <<"\n">> \o envLines[i].key \o <<"=", "*", "*", "*", "\n">>)

\* C5 witness: readProjectFiles has disclosed a .env file of two lines, one
\* with a lower-case sensitive key and a value that is not ***, one with a
\* plain key; the file has a twin with another value for the sensitive key.
C5_Witness ==
    /\ fileCall.op = "readProjectFiles"
    /\ Len(envLines) = 2
    /\ envLines[1].key = <<"a", "p", "i", "_", "k", "e", "y">>
    /\ envLines[1].value = <<"a", "b", "c", "d", "e", "f", "1", "2", "3", "4", "5", "6">>
    /\ ~IsSecretLine(envLines[2])
    /\ \E other \in Twins(envLines) : other[1].value = <<"h", "u", "n", "t", "e", "r", "2">>
    /\ includes(fileResult.value, <<"#", " ", "w", "e", "b">>)

\* The path holds '..' or '~', or its final component (what follows the
\* last '/' or '\') is none of the allowlisted file names.
IsForbiddenPath(path) ==
    \/ includes(path, <<".", ".">>)
    \/ includes(path, <<"~">>)
    \/ \A i \in DOMAIN allowedFiles : LastComponent(path) # allowedFiles[i]

\* C7: a path offered to readProjectFiles, isFileAccessible or getFileInfo
\* that holds '..' or '~' or whose final component is not allowlisted is
\* rejected, and no access, stat or readFile call is made for it.
C7_ForbiddenPathNeverReachesFileSystem ==
    /\ (fileCall.op = "isFileAccessible" /\ IsForbiddenPath(fileCall.filename)) =>
           (fileResult.value = FALSE /\ fileResult.calls = <<>>)
    /\ (fileCall.op = "getFileInfo" /\ IsForbiddenPath(fileCall.filename)) =>
           (fileResult.value = Null /\ fileResult.calls = <<>>)
    /\ fileCall.op = "readProjectFiles" =>
           \A i \in DOMAIN fileResult.files :
               IsForbiddenPath(fileResult.files[i].path) => fileResult.files[i].calls = <<>>

\* The query strings the caller of the request gave: the query among the
\* arguments and the query beside the name.
CallerQueries ==
    {v.value : v \in {w \in {Get(request.params, "query"),
                              IF Get(request.params, "arguments").type = "object"
                              THEN Get(Get(request.params, "arguments"), "query")
                              ELSE Undefined} : w.type = "string"}}

\* C3: every request sent to a search backend carries a query, and the query
\* is site:(d1 OR ... OR dn), a space and the sanitized query of the caller,
\* d1..dn being the configured allowlist.
C3_OutboundQueryRestricted ==
    \A i \in DOMAIN effects.outbound :
        /\ effects.outbound[i].hasQuery
        /\ \E q \in CallerQueries :
              /\ sanitizeSearchQuery(q).ok
              /\ effects.outbound[i].q = sitePart(appConfig) \o <<" ">> \o sanitizeSearchQuery(q).value

\* The envelope says isError: true and holds one text item that is not empty.
IsErrorEnvelope(envelope) ==
    /\ "isError" \in DOMAIN envelope
    /\ envelope.isError = TRUE
    /\ Len(envelope.content) = 1
    /\ envelope.content[1].type = "text"
    /\ envelope.content[1].text # <<>>

\* C8: on the tools/call path and on the server.tool path, a call that failed
\* with a validation error, a rate-limit rejection, an upstream failure, an
\* unknown operation or a handler exception is answered with an envelope
\* whose isError is true and whose content is a text.
C8_FailureCarriesIsError ==
    reply.outcome \in {"validation", "rate limit", "upstream", "unknown operation",
                       "handler exception"} =>
        IsErrorEnvelope(reply.envelope)

\* C9: a tools/call request is always answered with an envelope; for a name
\* without a registered handler it is an error envelope whose text holds the
\* name, and an exception that escapes the handler is answered with an error
\* envelope of the same shape.
C9_UnknownOperationAnswered ==
    request.path = "tools/call" =>
        /\ DOMAIN reply.envelope \in {{"isError", "content"}, {"isError", "content", "structuredContent"}}
        /\ reply.envelope.isError \in BOOLEAN
        /\ request.params.name \notin toolRegistry =>
               /\ reply.outcome = "unknown operation"
               /\ IsErrorEnvelope(reply.envelope)
               /\ DOMAIN reply.envelope = {"isError", "content"}
               /\ \E i \in DOMAIN reply.envelope.content[1].text :
                      reply.envelope.content[1].text[i] = request.params.name
               /\ requests = request.before /\ effects = NoEffects
        /\ reply.outcome = "handler exception" =>
               /\ IsErrorEnvelope(reply.envelope)
               /\ DOMAIN reply.envelope = {"isError", "content"}

\* A tools/call request for rm_rf, which has no handler, was answered.
C9_Witness ==
    /\ request.path = "tools/call"
    /\ request.params.name = "rm_rf"
    /\ Get(request.params, "arguments") # Undefined
    /\ reply.outcome = "unknown operation"
    /\ reply.envelope.content[1].text = <<"Tool '", "rm_rf", "' not found">>

\* The text of the envelope holds the name of the field.
NamesField(envelope, field) ==
    \E i \in DOMAIN envelope.content :
        \E j \in DOMAIN envelope.content[i].text : envelope.content[i].text[j] = field

\* C10: when the arguments fail the schema, the rate limiter's map is as it
\* was before the call, no request was sent and no file system call was
\* made, and the error the caller receives names every field at fault.
C10_InvalidArgumentsFailFast ==
    reply.outcome = "validation" =>
        /\ requests = request.before
        /\ effects.outbound = <<>>
        /\ effects.fsCalls = <<>>
        /\ \A i \in DOMAIN reply.issues :
               \A k \in DOMAIN reply.issues[i].path :
                   NamesField(reply.envelope, reply.issues[i].path[k])

\* The identity under which the dispatch path counts the call.
IdentityOf(path) ==
    IF path = "tools/call" THEN generateRateLimitId([headers |-> <<>>]) ELSE "default"

\* Before the call, the window of the call's identity held the full number
\* of requests.
WindowUsedUp ==
    /\ request # NoRequest
    /\ ~checkLimit(request.before, IdentityOf(request.path), serpApiConfig, now).ok

\* C11: a call of kill_trip, sober_thinking or brave_search made when the
\* window of its caller is used up is rejected by the rate limiter and its
\* handler does not run: no request is sent and no file system call is made.
C11_NoHandlerRunsWhenWindowUsedUp ==
    (WindowUsedUp /\ request.params.name \in toolRegistry) =>
        /\ reply.outcome = "rate limit"
        /\ effects = NoEffects

\* C12: calls of different callers are counted in different windows: a call
\* is rejected by the rate limiter only if the rate limiter admitted calls of
\* that same caller before.
C12_CallersCountedApart ==
    reply.outcome = "rate limit" => request.caller \in served

\* The earlier calls of the call's identity that the rate limiter admitted
\* less than one window before the call.
EarlierInWindow ==
    LET id == IdentityOf(request.path)
        times == IF id \in DOMAIN request.before THEN request.before[id].requests ELSE <<>>
    IN  {i \in DOMAIN times : request.at - times[i] < SERPAPI_WINDOW_MS}

\* C13: with a healthy backend, a search call that follows fewer than 5
\* admitted calls of its identity within one window succeeds, and the call
\* that follows 5 of them (the sixth in the window) is answered with the
\* rate-limit failure without a request being sent.
C13_SixthCallInWindowRejected ==
    request # NoRequest =>
        /\ Cardinality(EarlierInWindow) <= SERPAPI_MAX_REQUESTS
        /\ Cardinality(EarlierInWindow) < SERPAPI_MAX_REQUESTS =>
               /\ reply.outcome = "ok"
               /\ reply.envelope.isError = FALSE
               /\ Len(effects.outbound) = 1
        /\ Cardinality(EarlierInWindow) = SERPAPI_MAX_REQUESTS =>
               /\ reply.outcome = "rate limit"
               /\ reply.envelope.isError = TRUE
               /\ NamesField(reply.envelope, "Rate limit exceeded for SerpAPI requests")
               /\ effects.outbound = <<>>

\* The sixth call of a window that began half a window earlier was answered.
C13_Witness ==
    /\ request.path = "tools/call"
    /\ Cardinality(EarlierInWindow) = SERPAPI_MAX_REQUESTS
    /\ request.before[IdentityOf(request.path)].requests[1] < request.at
    /\ reply.outcome = "rate limit"

\* The backend answered the search request of the call with a successful
\* response that holds no organic results.
AnsweredWithoutResults ==
    /\ request.params.name = "kill_trip"
    /\ Len(effects.answers) = 1
    /\ effects.answers[1] \in HealthyAnswers
    /\ effects.answers[1].results = <<>>

\* C14: a search call whose backend answers successfully with zero organic
\* results is answered with an envelope that is no error (isError is false
\* on the tools/call path and is not set on the server.tool path) and whose
\* only text is the sentence that no relevant documentation was found.
C14_EmptyResultIsNoFailure ==
    AnsweredWithoutResults =>
        /\ reply.outcome = "ok"
        /\ ~("isError" \in DOMAIN reply.envelope /\ reply.envelope.isError = TRUE)
        /\ request.path = "tools/call" => reply.envelope.isError = FALSE
        /\ Len(reply.envelope.content) = 1
        /\ reply.envelope.content[1].type = "text"
        /\ reply.envelope.content[1].text =
               <<"No relevant documentation found. The query may be too specific or the information might not be available in the configured documentation sites.">>

\* A tools/call request of kill_trip was answered after the backend returned
\* no results.
C14_Witness ==
    /\ AnsweredWithoutResults
    /\ request.path = "tools/call"
    /\ reply.envelope.isError = FALSE
    /\ reply.envelope.structuredContent.result = reply.envelope.content[1].text

\* The search request of the call did not complete within the timeout.
TimedOut == request # NoRequest /\ effects.answers = <<TimeoutAbort>>

\* C15: a search call whose request does not complete within
\* SERPAPI_TIMEOUT_MS is answered with an error whose text says that the
\* SerpAPI request timed out, no search call that ends otherwise is answered
\* with that text, and every search call that waits for its request is
\* answered eventually.
C15_TimeoutIsDistinctAndBounded ==
    /\ [](TimedOut =>
             /\ now - request.at >= SERPAPI_TIMEOUT_MS
             /\ IsErrorEnvelope(reply.envelope)
             /\ NamesField(reply.envelope, "SerpAPI request timed out"))
    /\ []((request # NoRequest /\ reply # NoReply /\ ~TimedOut) =>
             ~NamesField(reply.envelope, "SerpAPI request timed out"))
    /\ (Pending ~> ~Pending)

\* A search call was answered with the timeout failure once the timeout had
\* passed since its request was sent.
C15_Witness ==
    /\ TimedOut
    /\ now - request.at = SERPAPI_TIMEOUT_MS
    /\ Len(effects.outbound) = 1
    /\ NamesField(reply.envelope, "SerpAPI request timed out")
\* C16: a call sends at most one outbound request: a call that failed
\* upstream (timeout, transport error, non-success status, embedded error)
\* sent exactly one, and a call rejected by the rate limiter sent none.
C16_OneOutboundRequestNoRetry ==
    reply # NoReply =>
        /\ Len(effects.outbound) <= 1
        /\ reply.outcome = "upstream" => Len(effects.outbound) = 1
        /\ reply.outcome = "rate limit" => effects.outbound = <<>>

\* A kill_trip call failed on the timeout of its only request.
C16_Witness ==
    /\ reply # NoReply
    /\ request.params.name = "kill_trip"
    /\ reply.outcome = "upstream"
    /\ effects.answers = <<NoAnswer>>
    /\ Len(effects.outbound) = 1
\* The header lines of a combined content, in order.  File content is made
\* of single characters, so the fragment "## " only opens a header.
HeaderLines(text) ==
    SelectSeq(split(text, {"\n"}), LAMBDA line : line # <<>> /\ Head(line) = "## ")

\* The file at path is there, readable, read in time and within the size limit.
Sound(path) ==
    /\ path \in DOMAIN fs
    /\ fs[path].readable
    /\ ~fs[path].slow
    /\ fs[path].size <= MAX_FILE_SIZE

\* Some file of the list cannot be read.
SomeFileFails ==
    \E i \in DOMAIN allowedFiles :
        ~validateFilePath(join(cwd, allowedFiles[i])).ok \/ ~Sound(join(cwd, allowedFiles[i]))

\* C17: the content returned by readProjectFiles holds exactly one headed
\* block per entry of allowedFiles, in the order of the list, whichever files
\* are missing, rejected, too large, unreadable or timed out, and the block
\* of a regular file that can be read holds its content whatever happened
\* to the others.
C17_OneBlockPerListedFile ==
    fileCall.op = "readProjectFiles" =>
        /\ HeaderLines(fileResult.value)
             = [i \in DOMAIN allowedFiles |-> <<"## ">> \o allowedFiles[i]]
        /\ \A i \in DOMAIN allowedFiles :
             LET path == join(cwd, allowedFiles[i])
             IN  (validateFilePath(path).ok /\ Sound(path) /\ allowedFiles[i] # dot_env)
                     => includes(fileResult.value, Section(allowedFiles[i], fs[path].content))

\* readProjectFiles returned while files of the list were missing,
\* unreadable and too large, and still disclosed the README.
C17_Witness ==
    /\ fileCall.op = "readProjectFiles"
    /\ SomeFileFails
    /\ join(cwd, CHANGELOG) \notin DOMAIN fs
    /\ join(cwd, CHANGELOG_md) \in DOMAIN fs /\ fs[join(cwd, CHANGELOG_md)].size > MAX_FILE_SIZE
    /\ join(cwd, tsconfig_json) \in DOMAIN fs /\ ~fs[join(cwd, tsconfig_json)].readable
    /\ validateFilePath(join(cwd, README_md)).ok /\ Sound(join(cwd, README_md))
\* The file system calls readProjectFiles made for the i-th file of the list.
CallsFor(i) == fileResult.files[i].calls

\* C18: for every file of the list readProjectFiles reads a file only after
\* a stat of the same path, and never reads a file whose size is over
\* MAX_FILE_SIZE: the block of such a file holds the too-large placeholder.
C18_StatBeforeReadAndSizeCap ==
    fileCall.op = "readProjectFiles" =>
        \A i \in DOMAIN allowedFiles :
            LET path == join(cwd, allowedFiles[i])
            IN  /\ \A k \in DOMAIN CallsFor(i) :
                     CallsFor(i)[k].op = "readFile" =>
                         \E j \in 1..(k - 1) : CallsFor(i)[j] = FsCall("stat", CallsFor(i)[k].path)
                /\ (validateFilePath(path).ok /\ path \in DOMAIN fs /\ fs[path].size > MAX_FILE_SIZE) =>
                     /\ \A k \in DOMAIN CallsFor(i) : CallsFor(i)[k].op # "readFile"
                     /\ includes(fileResult.value,
                                 Section(allowedFiles[i], <<"(File too large to read - ">>
                                     \o ToDecimal(RoundKB(fs[path].size)) \o <<"KB)">>))
\* The reply is an envelope marked as an error.
RepliedWithError ==
    /\ reply # NoReply
    /\ "isError" \in DOMAIN reply.envelope
    /\ reply.envelope.isError = TRUE

\* C19: in a production configuration the text of an error envelope holds
\* neither stack frames nor the HTTP status the backend answered with.
C19_ProductionErrorsAreGeneric ==
    (RepliedWithError /\ isProduction(appConfig)) =>
        /\ ~NamesField(reply.envelope, "    at (stack frames)")
        /\ \A i \in DOMAIN effects.answers :
             (effects.answers[i].kind = "response" /\ ~effects.answers[i].ok)
                 => ~NamesField(reply.envelope, effects.answers[i].status)
\* C20: wherever sanitizeSearchQuery returns a value, sanitizing that value
\* again succeeds and returns the same value.
C20_SanitizeIsIdempotent ==
    sanitized.ok => sanitizeSearchQuery(sanitized.value) = sanitized

\* The sanitizer returned a value for a query longer than MAX_QUERY_LENGTH
\* from which it removed characters, cut the rest and trimmed white space.
C20_Witness ==
    /\ sanitized.ok
    /\ Len(SelectSeq(query, QueryCharKept)) < Len(query)
    /\ Len(SelectSeq(query, QueryCharKept)) > MAX_QUERY_LENGTH
    /\ Len(sanitized.value) < MAX_QUERY_LENGTH
\* The line is blank or a comment.
IsBlankOrComment(l) == trim(LineText(l)) = <<>> \/ Head(trim(LineText(l))) = "#"

\* The value of a line as it stands once the line is trimmed.
ValueOf(l) == Tail(trim(<<"=">> \o l.value))

\* C21: maskEnvValue returns a blank line and a comment line unchanged; for
\* a key=value line whose key holds no sensitive marker it returns the line
\* unchanged when the value has at most ENV_VALUE_MAX characters, and
\* otherwise the key, '=', the first ENV_VALUE_MAX characters of the value
\* and '...'.
C21_PlainLinesKeptLongValuesCut ==
    masked # NotMasked =>
        /\ IsBlankOrComment(envLine) => masked = LineText(envLine)
        /\ (envLine.sep = <<"=">> /\ ~IsBlankOrComment(envLine) /\ ~HasSecretKey(envLine)) =>
             IF Len(ValueOf(envLine)) <= ENV_VALUE_MAX
             THEN masked = LineText(envLine)
             ELSE masked = envLine.key \o <<"=">> \o SubSeq(ValueOf(envLine), 1, ENV_VALUE_MAX)
                               \o <<".", ".", ".">>

\* maskEnvValue cut the value of an indented line with a plain key.
C21_Witness ==
    /\ masked # NotMasked
    /\ envLine.sep = <<"=">> /\ envLine.indent # <<>> /\ envLine.key = <<"P", "O", "R", "T">>
    /\ Len(envLine.value) = ENV_VALUE_MAX + 1
    /\ Len(masked) = Len(envLine.key) + 1 + ENV_VALUE_MAX + 3
\* The instants recorded for an identity in a map that lie inside the
\* window of the given length ending at instant t.
RecordedInWindow(map, identifier, windowMs, t) ==
    IF identifier \notin DOMAIN map THEN {}
    ELSE {i \in DOMAIN map[identifier].requests : map[identifier].requests[i] > t - windowMs}

\* C22: getRequestCount returns the number of the identity's recorded
\* instants inside the given window and leaves the rate limiter's map as it
\* was: no record is created, pruned or deleted.
C22_CountReadsWithoutWriting ==
    last.op = "getRequestCount" =>
        /\ last.value = Cardinality(RecordedInWindow(last.map, last.identifier,
                                                     last.windowMs, last.at))
        /\ requests = last.map

\* getRequestCount counted fewer instants than the identity's record holds.
C22_Witness ==
    /\ last.op = "getRequestCount"
    /\ last.identifier \in DOMAIN requests
    /\ last.value > 0
    /\ last.value < Len(requests[last.identifier].requests)
\* The records of a map whose identity was last admitted more than two
\* windows of its domain before instant t (both domains of the program
\* have a window of DEFAULT_WINDOW_MS = SERPAPI_WINDOW_MS).
LongUnseen(map, t) ==
    {id \in DOMAIN map : t - map[id].lastRequest > 2 * serpApiConfig.windowMs
                         /\ t - map[id].lastRequest > 2 * defaultConfig.windowMs}

\* C23: cleanup removes exactly the identities whose last admitted request
\* is older than two windows and leaves every other record as it was; the
\* instant a record holds as its last request is that of the identity's
\* last admitted request.
C23_CleanupRemovesOnlyLongUnseen ==
    /\ last.op = "cleanup" =>
          /\ DOMAIN requests = (DOMAIN last.before) \ LongUnseen(last.before, last.at)
          /\ \A id \in DOMAIN requests : requests[id] = last.before[id]
    /\ \A id \in DOMAIN requests :
          admitted[id] # <<>> => requests[id].lastRequest = admitted[id][Len(admitted[id])].time

\* cleanup removed one identity's record and kept another's, one of them
\* last admitted exactly two windows before.
C23_Witness ==
    /\ last.op = "cleanup"
    /\ DOMAIN requests # {}
    /\ DOMAIN requests # DOMAIN last.before
    /\ \E id \in DOMAIN requests : last.at - requests[id].lastRequest = 2 * DEFAULT_WINDOW_MS
\* The number of instants of a list inside the window of a config at instant t.
CountUnder(times, config, t) == Len(InWindow(times, t - config.windowMs))

\* C24: a request admitted for an identity under the config of one
\* rate-limit domain leaves the identity's in-window count under the other
\* domain's config as it was.
C24_DomainsCountApart ==
    (last.op = "checkLimit" /\ last.ok) =>
        \A other \in DomainConfigs \ {last.config} :
            CountUnder(requests[last.identifier].requests, other, last.at)
                = CountUnder(last.before, other, last.at)
\* C25: right after a checkLimit call or a cleanup run every instant
\* recorded for any identity lies within the last window.
C25_RecordedInstantsInsideWindow ==
    last.op \in {"checkLimit", "cleanup"} =>
        \A id \in DOMAIN requests :
            \A i \in DOMAIN requests[id].requests :
                /\ requests[id].requests[i] >= now - DEFAULT_WINDOW_MS
                /\ requests[id].requests[i] <= now
\* C26: a readProjectFiles call always returns: whatever the file system
\* does, the combined content is produced in the end.
C26_ReadingAlwaysResolves ==
    (fileCall.op = "readProjectFiles") ~> (fileResult # NoFileResult)
\* C27: a checkLimit call for an identity that was rejected and not
\* admitted since is admitted when the window has elapsed since the oldest
\* instant that the rejection found in the window, whatever rejected calls
\* and cleanup runs happened in between.
C27_RejectedIsAdmittedAfterWindow ==
    (/\ last.op = "checkLimit"
     /\ last.limitedBefore.limited
     /\ last.at - last.limitedBefore.oldest >= last.config.windowMs)
        => last.ok

\* A rejected identity was admitted one window after its oldest instant
\* while its record still held as many instants as the limit allows.
C27_Witness ==
    /\ last.op = "checkLimit"
    /\ last.limitedBefore.limited
    /\ last.at - last.limitedBefore.oldest = last.config.windowMs
    /\ Len(last.before) >= last.config.maxRequests
    /\ last.ok
\* The number of instants recorded for the identity of the call that lie
\* inside the search window at the instant of the call.
SlotsUsed(map) ==
    Cardinality(RecordedInWindow(map, IdentityOf(request.path), serpApiConfig.windowMs,
                                 request.at))

\* The call got past the rate limiter of search.
PastTheLimiter ==
    /\ reply # NoReply
    /\ request.params.name = "kill_trip"
    /\ reply.outcome \in {"sanitization", "upstream", "ok"}

\* C28: a search call that the rate limiter admits uses one slot of its
\* identity's window, also when its query then sanitizes to empty or its
\* request fails or times out: the slot is taken before sanitization and
\* before the request, and stays taken.
C28_AdmittedCallKeepsItsSlot ==
    PastTheLimiter =>
        /\ SlotsUsed(request.before) < serpApiConfig.maxRequests
        /\ SlotsUsed(requests) = SlotsUsed(request.before) + 1
        /\ reply.outcome = "sanitization" => effects.outbound = <<>>

\* A call whose query sanitized to empty took the last slot of the window.
C28_Witness ==
    /\ PastTheLimiter
    /\ reply.outcome = "sanitization"
    /\ SlotsUsed(requests) = serpApiConfig.maxRequests
\* C29: in every working directory validateFilePath accepts the path of
\* every file of the list, and readProjectFiles answers for none of them
\* with the block of a rejected path.
C29_ListedFilesAcceptedInEveryDirectory ==
    fileCall.op = "readProjectFiles" =>
        \A i \in DOMAIN allowedFiles :
            /\ validateFilePath(join(cwd, allowedFiles[i])).ok
            /\ ~includes(fileResult.value,
                         Section(allowedFiles[i], <<"(File not found or unreadable)">>))
\* The arguments object the call was dispatched with names a query of 1 to
\* MAX_QUERY_LENGTH characters and no count or an integer count from 1 to 10.
DispatchedWithValidBraveArguments ==
    /\ request # NoRequest
    /\ request.params.name = "brave_search"
    /\ Get(request.params, "arguments").type = "object"
    /\ BraveSearchArgsSchema(Get(request.params, "arguments")).success

\* C30: a brave_search call dispatched with valid arguments passes the input
\* validation of executeBraveSearch on the tools/call path and on the
\* server.tool path: it is never answered with a validation failure.
C30_ValidBraveArgumentsPassValidation ==
    (reply # NoReply /\ DispatchedWithValidBraveArguments) =>
        /\ reply.outcome # "validation"
        /\ reply.issues = <<>>

====
